---- MODULE Spec2Model ----
(***************************************************************************)
(* State machine of the market-data stream client SmartAPIWebSocket        *)
(* (src/unnamed/part_004, lines 195-1246).                                 *)
(*                                                                         *)
(* The client runs on one event loop: every public method and every socket *)
(* or timer callback runs to completion, so each is one action.  A promise *)
(* continuation (.then) runs as a microtask right after the handler that   *)
(* settles the promise, before any other event, so it belongs to the same  *)
(* action.                                                                 *)
(*                                                                         *)
(* The transport is the `ws` package.  A socket is created CONNECTING;     *)
(* it then delivers `open`, or `error` followed by `close`.  An OPEN       *)
(* socket delivers `close` (remote close or network loss), or `error`      *)
(* followed by `close`.  close() on an OPEN socket makes it CLOSING and a  *)
(* `close` event follows; close() on a CONNECTING socket aborts the        *)
(* handshake: the socket is CLOSING and delivers `error`, then `close`.    *)
(* The listeners the client registers on a socket are never removed.       *)
(*                                                                         *)
(* The caller is assumed to have an `error` listener registered (as every  *)
(* example does), so emit('error') returns normally.                       *)
(***************************************************************************)
EXTENDS Integers, Sequences, FiniteSets, TLC

VARIABLES
  connectionState,       \* this.connectionState
  ws,                    \* this.ws: a socket id, or 0 for null
  subscriptions,         \* this.subscriptions: Map in insertion order
  reconnectAttempts,     \* this.reconnectAttempts
  heartbeatInterval,     \* this.heartbeatInterval: TRUE when an interval is armed
  pendingSubscriptions,  \* this.pendingSubscriptions
  sock,                  \* the sockets created by the client (transport state)
  timers,                \* number of pending setTimeout reconnect callbacks
  exhausted,             \* history: `reconnect_failed` was emitted since the last open
  last,                  \* what the latest handler did: frames sent, events emitted
  order,                 \* the OrderStatusWebSocket object, its sockets and timers
                         \* (jwtToken: 1 is the constructor's token, 2 a refreshed one)
  orderLast,             \* what the latest handler of the order-status client did, and
                         \* history: reconnect timers armed since the last open
  authRejected           \* history: a 401/403/429 frame arrived since the caller's last connect()

marketVars == <<connectionState, ws, subscriptions, reconnectAttempts, heartbeatInterval,
                pendingSubscriptions, sock, timers, exhausted, last>>

orderVars == <<order, orderLast, authRejected>>

vars == <<connectionState, ws, subscriptions, reconnectAttempts, heartbeatInterval,
          pendingSubscriptions, sock, timers, exhausted, last,
          order, orderLast, authRejected>>

----------------------------------------------------------------------------
(* Bounds of the model *)

MaxSockets == 2     \* sockets alive (not yet closed) at the same time
MaxTimers == 1      \* reconnect timers pending at the same time
MaxPending == 2     \* length of the pending queue in Spec
MaxPendingDepth == 51   \* length of the pending queue in SpecDepth
MaxPendingOverwrite == 3   \* length of the pending queue in SpecOverwrite

----------------------------------------------------------------------------
(* enum FeedMode *)
LTP == 1
QUOTE == 2
SNAP_QUOTE == 3
DEPTH_20 == 4

(* enum ExchangeType *)
NSE_CM == 1
BSE_CM == 3
CDE_FO == 13

(* enum Action *)
UNSUBSCRIBE == 0
SUBSCRIBE == 1

(* enum ConnectionState *)
CONNECTING == "CONNECTING"
CONNECTED == "CONNECTED"
DISCONNECTING == "DISCONNECTING"
DISCONNECTED == "DISCONNECTED"
ERROR == "ERROR"

maxReconnectAttempts == 5
Depth20Limit == 50         \* the 50-token cap of DEPTH_20
batchSize == 200           \* resubscribe batches of the other modes

SocketIds == 1..MaxSockets

ClosedSocket == [readyState |-> "CLOSED", errPending |-> FALSE,
                 origin |-> "caller", local |-> FALSE]

----------------------------------------------------------------------------
(* Helpers on sequences *)

\* the distinct elements of s, in order of first appearance
\* (the key order of a JS Map filled by iterating s)
DistinctInOrder(s) ==
  LET indexed == [i \in 1..Len(s) |-> <<i, s[i]>>]
      firsts == SelectSeq(indexed, LAMBDA p : \A j \in 1..(p[1] - 1) : s[j] # p[2])
  IN [k \in 1..Len(firsts) |-> firsts[k][2]]

getSubscriptionKey(exchangeType, token) == <<exchangeType, token>>

KeyOf(sub) == getSubscriptionKey(sub.exchangeType, sub.token)

MapHas(map, key) == \E i \in 1..Len(map) : KeyOf(map[i]) = key

\* Map.set: overwrite in place, or append
MapSet(map, sub) ==
  IF MapHas(map, KeyOf(sub))
  THEN [i \in 1..Len(map) |-> IF KeyOf(map[i]) = KeyOf(sub) THEN sub ELSE map[i]]
  ELSE Append(map, sub)

\* Map.delete
MapDelete(map, key) == SelectSeq(map, LAMBDA e : KeyOf(e) # key)

\* Map.set of every element of subs, in order: a key already in the map keeps
\* its place and gets the value set last; new keys follow in order of first set
MapSetAll(map, subs) ==
  LET LastFor(key) ==
        subs[CHOOSE i \in 1..Len(subs) :
               /\ KeyOf(subs[i]) = key
               /\ \A j \in (i + 1)..Len(subs) : KeyOf(subs[j]) # key]
      kept == [i \in 1..Len(map) |->
                 IF \E j \in 1..Len(subs) : KeyOf(subs[j]) = KeyOf(map[i])
                 THEN LastFor(KeyOf(map[i])) ELSE map[i]]
      newSubs == SelectSeq(subs, LAMBDA e : ~MapHas(map, KeyOf(e)))
      newKeys == DistinctInOrder([i \in 1..Len(newSubs) |-> KeyOf(newSubs[i])])
  IN kept \o [k \in 1..Len(newKeys) |-> LastFor(newKeys[k])]

\* Map<ExchangeType, string[]> filled from subs, then Array.from(entries())
GroupByExchange(subs) ==
  LET exs == DistinctInOrder([i \in 1..Len(subs) |-> subs[i].exchangeType])
  IN [j \in 1..Len(exs) |->
        LET mine == SelectSeq(subs, LAMBDA e : e.exchangeType = exs[j])
        IN [exchangeType |-> exs[j],
            tokens |-> [i \in 1..Len(mine) |-> mine[i].token]]]

RECURSIVE NseCmTotal(_)
\* totalTokens of sendSubscriptionRequest
NseCmTotal(tokenList) ==
  IF tokenList = <<>> THEN 0
  ELSE (IF Head(tokenList).exchangeType = NSE_CM THEN Len(Head(tokenList).tokens) ELSE 0)
       + NseCmTotal(Tail(tokenList))

----------------------------------------------------------------------------
(* The client as a record m: the fields of the object, the transport, and  *)
(* what the running handler has done so far.                               *)

Cur ==
  [connectionState |-> connectionState, ws |-> ws, subscriptions |-> subscriptions,
   reconnectAttempts |-> reconnectAttempts, heartbeatInterval |-> heartbeatInterval,
   pendingSubscriptions |-> pendingSubscriptions, sock |-> sock, timers |-> timers,
   frames |-> <<>>, events |-> <<>>, seen |-> <<>>, ticks |-> <<>>, created |-> 0,
   closed |-> 0, result |-> "none"]

\* what a listener that runs inside emit() sees of the client
Snapshot(m) ==
  [connectionState |-> m.connectionState, heartbeatInterval |-> m.heartbeatInterval,
   pendingSubscriptions |-> m.pendingSubscriptions, subscriptions |-> m.subscriptions]

\* emit(event): the listeners run at once, on the client as it is now
emit(m, event) ==
  [m EXCEPT !.events = Append(@, event), !.seen = Append(@, Snapshot(m))]

HasFreeSocket(m) == \E s \in SocketIds : m.sock[s].readyState = "CLOSED"

\* the slot a new socket takes: the lowest closed one (every action that
\* creates a socket requires HasFreeSocket)
FreeSocket(m) ==
  IF HasFreeSocket(m)
  THEN CHOOSE s \in SocketIds :
         /\ m.sock[s].readyState = "CLOSED"
         /\ \A t \in SocketIds : m.sock[t].readyState = "CLOSED" => s <= t
  ELSE 1

clearHeartbeat(m) == [m EXCEPT !.heartbeatInterval = FALSE]

setupHeartbeat(m) == [clearHeartbeat(m) EXCEPT !.heartbeatInterval = TRUE]

sendSubscriptionRequest(m, correlationId, feedMode, tokenList, action) ==
  IF m.ws = 0 \/ m.sock[m.ws].readyState # "OPEN"
  THEN m
  ELSE IF feedMode = DEPTH_20 /\ NseCmTotal(tokenList) > Depth20Limit
  THEN emit(m, "error")
  ELSE [m EXCEPT !.frames = Append(@, [sock |-> m.ws, correlationID |-> correlationId,
                                       action |-> action, mode |-> feedMode,
                                       tokenList |-> tokenList])]

\* connect() without the early return taken when already CONNECTED
connect_always(m, origin) ==
  LET s == FreeSocket(m)
  IN [m EXCEPT !.connectionState = CONNECTING,
               !.ws = s,
               !.sock[s] = [readyState |-> "CONNECTING", errPending |-> FALSE,
                            origin |-> origin, local |-> FALSE],
               !.created = @ + 1,
               !.result = "pending"]

\* connect() that also starts the count of reconnect attempts afresh
connect_resetsCounter(m, origin) ==
  IF m.connectionState = CONNECTED
  THEN [m EXCEPT !.result = "resolved"]
  ELSE LET s == FreeSocket(m)
       IN [m EXCEPT !.connectionState = CONNECTING,
                    !.reconnectAttempts = 0,
                    !.ws = s,
                    !.sock[s] = [readyState |-> "CONNECTING", errPending |-> FALSE,
                                 origin |-> origin, local |-> FALSE],
                    !.created = @ + 1,
                    !.result = "pending"]

\* connect(): origin says who holds the returned promise ("timer": the
\* reconnect callback, which chains resubscribe on it)
connect(m, origin) ==
  IF m.connectionState = CONNECTED
  THEN [m EXCEPT !.result = "resolved"]
  ELSE LET s == FreeSocket(m)
       IN [m EXCEPT !.connectionState = CONNECTING,
                    !.ws = s,
                    !.sock[s] = [readyState |-> "CONNECTING", errPending |-> FALSE,
                                 origin |-> origin, local |-> FALSE],
                    !.created = @ + 1,
                    !.result = "pending"]

\* connect() that lets the exception of the constructor escape
connectCatch_rethrow(m) ==
  IF m.connectionState = CONNECTED
  THEN [m EXCEPT !.result = "resolved"]
  ELSE [m EXCEPT !.connectionState = CONNECTING, !.result = "thrown"]

\* connect() when new WebSocket(...) throws: the catch block of the executor
connectCatch(m) ==
  IF m.connectionState = CONNECTED
  THEN [m EXCEPT !.result = "resolved"]
  ELSE [emit([m EXCEPT !.connectionState = ERROR], "error") EXCEPT !.result = "rejected"]

attemptReconnect(m) ==
  IF m.reconnectAttempts >= maxReconnectAttempts
  THEN emit(m, "reconnect_failed")
  ELSE [emit(m, "reconnecting") EXCEPT !.reconnectAttempts = @ + 1,
                                       !.timers = @ + 1]

RECURSIVE ProcessGroups(_, _)
\* the loop over subscriptionGroups.entries() of processPendingSubscriptions
ProcessGroups(m, groupKeys) ==
  IF groupKeys = <<>> THEN m
  ELSE LET feedMode == Head(groupKeys)
           subs == SelectSeq(m.pendingSubscriptions, LAMBDA e : e.feedMode = feedMode)
           m1 == [m EXCEPT !.subscriptions = MapSetAll(@, subs)]
           m2 == sendSubscriptionRequest(m1, <<"pending", feedMode>>, feedMode,
                                         GroupByExchange(subs), SUBSCRIBE)
       IN ProcessGroups(m2, Tail(groupKeys))

\* processPendingSubscriptions() without the final assignment of the empty array
processPendingSubscriptions_keepQueue(m) ==
  IF Len(m.pendingSubscriptions) = 0 THEN m
  ELSE LET groupKeys == DistinctInOrder([i \in 1..Len(m.pendingSubscriptions) |->
                                           m.pendingSubscriptions[i].feedMode])
       IN ProcessGroups(m, groupKeys)

processPendingSubscriptions(m) ==
  IF Len(m.pendingSubscriptions) = 0 THEN m
  ELSE LET groupKeys == DistinctInOrder([i \in 1..Len(m.pendingSubscriptions) |->
                                           m.pendingSubscriptions[i].feedMode])
       IN [ProcessGroups(m, groupKeys) EXCEPT !.pendingSubscriptions = <<>>]


RECURSIVE Depth20Batches(_, _, _)
\* for (let i = 0; i < nseCmTokens.length; i += 50)
Depth20Batches(m, nseCmTokens, i) ==
  IF i >= Len(nseCmTokens) THEN m
  ELSE LET hi == IF i + Depth20Limit <= Len(nseCmTokens)
                 THEN i + Depth20Limit ELSE Len(nseCmTokens)
           batch == SubSeq(nseCmTokens, i + 1, hi)
       IN Depth20Batches(
            sendSubscriptionRequest(m, <<"resubscribe-depth20", i \div Depth20Limit>>,
                                    DEPTH_20,
                                    <<[exchangeType |-> NSE_CM, tokens |-> batch]>>,
                                    SUBSCRIBE),
            nseCmTokens, i + Depth20Limit)

RECURSIVE FillBatch_noSplit(_, _, _)
\* an inner loop that always takes the whole exchange
FillBatch_noSplit(tokenList, batch, totalTokenCount) ==
  IF tokenList = <<>> \/ totalTokenCount >= batchSize
  THEN [tokenList |-> tokenList, batch |-> batch]
  ELSE FillBatch_noSplit(Tail(tokenList), Append(batch, Head(tokenList)),
                         totalTokenCount + Len(Head(tokenList).tokens))

RECURSIVE FillBatch(_, _, _)
\* the inner while loop of resubscribe: takes exchanges off tokenList until
\* the batch holds batchSize tokens; yields the batch and what is left
FillBatch(tokenList, batch, totalTokenCount) ==
  IF tokenList = <<>> \/ totalTokenCount >= batchSize
  THEN [tokenList |-> tokenList, batch |-> batch]
  ELSE LET exchange == Head(tokenList)
       IN IF Len(exchange.tokens) + totalTokenCount <= batchSize
          THEN FillBatch(Tail(tokenList), Append(batch, exchange),
                         totalTokenCount + Len(exchange.tokens))
          ELSE LET n == batchSize - totalTokenCount
                   tokensForBatch == SubSeq(exchange.tokens, 1, n)
                   rest == SubSeq(exchange.tokens, n + 1, Len(exchange.tokens))
               IN FillBatch(<<[exchange EXCEPT !.tokens = rest]>> \o Tail(tokenList),
                            Append(batch, [exchangeType |-> exchange.exchangeType,
                                           tokens |-> tokensForBatch]),
                            totalTokenCount + Len(tokensForBatch))

RECURSIVE SendBatches(_, _, _, _)
\* the outer while loop of resubscribe
SendBatches(m, mode, tokenList, batchCounter) ==
  IF tokenList = <<>> THEN m
  ELSE LET f == FillBatch(tokenList, <<>>, 0)
       IN IF Len(f.batch) > 0
          THEN SendBatches(sendSubscriptionRequest(m, <<"resubscribe-mode", mode, batchCounter>>,
                                                   mode, f.batch, SUBSCRIBE),
                           mode, f.tokenList, batchCounter + 1)
          ELSE SendBatches(m, mode, f.tokenList, batchCounter)

\* one iteration of the loop over subscriptionsByMode.entries()
ResubscribeMode(m, mode) ==
  LET subs == SelectSeq(m.subscriptions, LAMBDA e : e.feedMode = mode)
      exchangeMap == GroupByExchange(subs)
  IN IF mode = DEPTH_20
     THEN LET nse == SelectSeq(exchangeMap, LAMBDA g : g.exchangeType = NSE_CM)
              nseCmTokens == IF nse = <<>> THEN <<>> ELSE nse[1].tokens
          IN IF Len(nseCmTokens) > Depth20Limit
             THEN Depth20Batches(m, nseCmTokens, 0)
             ELSE IF Len(nseCmTokens) > 0
             THEN sendSubscriptionRequest(m, <<"resubscribe-depth20">>, mode,
                                          <<[exchangeType |-> NSE_CM,
                                             tokens |-> nseCmTokens]>>, SUBSCRIBE)
             ELSE m
     ELSE SendBatches(m, mode, exchangeMap, 0)

RECURSIVE ResubscribeModes(_, _)
ResubscribeModes(m, modes) ==
  IF modes = <<>> THEN m
  ELSE ResubscribeModes(ResubscribeMode(m, Head(modes)), Tail(modes))

\* resubscribe() that replays the first feed mode only
resubscribe_firstModeOnly(m) ==
  IF Len(m.subscriptions) = 0 THEN m
  ELSE ResubscribeMode(m, m.subscriptions[1].feedMode)

resubscribe(m) ==
  IF Len(m.subscriptions) = 0 THEN m
  ELSE ResubscribeModes(m, DistinctInOrder([i \in 1..Len(m.subscriptions) |->
                                              m.subscriptions[i].feedMode]))

\* subscribe() without the DEPTH_20 exchange check
subscribe_noDepthCheck(m, sub) ==
  IF m.connectionState # CONNECTED
  THEN LET m1 == [m EXCEPT !.pendingSubscriptions = Append(@, sub)]
           m2 == IF m1.connectionState = DISCONNECTED THEN connect(m1, "caller") ELSE m1
       IN [m2 EXCEPT !.result = "queued"]
  ELSE LET m1 == [m EXCEPT !.subscriptions = MapSet(@, sub)]
           m2 == sendSubscriptionRequest(m1, sub.correlationId, sub.feedMode,
                                         <<[exchangeType |-> sub.exchangeType,
                                            tokens |-> <<sub.token>>]>>, SUBSCRIBE)
       IN [m2 EXCEPT !.result = "sent"]

\* subscribe() that connects whenever it queues
subscribe_connectAlways(m, sub) ==
  IF sub.feedMode = DEPTH_20 /\ sub.exchangeType # NSE_CM
  THEN [m EXCEPT !.result = "rejected"]
  ELSE IF m.connectionState # CONNECTED
  THEN [connect([m EXCEPT !.pendingSubscriptions = Append(@, sub)], "caller")
          EXCEPT !.result = "queued"]
  ELSE LET m1 == [m EXCEPT !.subscriptions = MapSet(@, sub)]
           m2 == sendSubscriptionRequest(m1, sub.correlationId, sub.feedMode,
                                         <<[exchangeType |-> sub.exchangeType,
                                            tokens |-> <<sub.token>>]>>, SUBSCRIBE)
       IN [m2 EXCEPT !.result = "sent"]

\* subscribe(correlationId, exchangeType, token, feedMode); sub holds the arguments
subscribe(m, sub) ==
  IF sub.feedMode = DEPTH_20 /\ sub.exchangeType # NSE_CM
  THEN [m EXCEPT !.result = "rejected"]
  ELSE IF m.connectionState # CONNECTED
  THEN LET m1 == [m EXCEPT !.pendingSubscriptions = Append(@, sub)]
           m2 == IF m1.connectionState = DISCONNECTED THEN connect(m1, "caller") ELSE m1
       IN [m2 EXCEPT !.result = "queued"]
  ELSE LET m1 == [m EXCEPT !.subscriptions = MapSet(@, sub)]
           m2 == sendSubscriptionRequest(m1, sub.correlationId, sub.feedMode,
                                         <<[exchangeType |-> sub.exchangeType,
                                            tokens |-> <<sub.token>>]>>, SUBSCRIBE)
       IN [m2 EXCEPT !.result = "sent"]

\* the SubscriptionData subscribeMultiple builds for each symbol
MultiSubs(correlationId, symbols, feedMode) ==
  [i \in 1..Len(symbols) |->
     [correlationId |-> <<correlationId, symbols[i].exchangeType, symbols[i].token>>,
      exchangeType |-> symbols[i].exchangeType,
      token |-> symbols[i].token,
      feedMode |-> feedMode]]

\* subscribeMultiple() without the check of the batch length
subscribeMultiple_noCap(m, correlationId, symbols, feedMode) ==
  IF feedMode = DEPTH_20 /\ (\E i \in 1..Len(symbols) : symbols[i].exchangeType # NSE_CM)
  THEN [m EXCEPT !.result = "rejected"]
  ELSE IF m.connectionState # CONNECTED
  THEN LET m1 == [m EXCEPT !.pendingSubscriptions =
                               @ \o MultiSubs(correlationId, symbols, feedMode)]
           m2 == IF m1.connectionState = DISCONNECTED THEN connect(m1, "caller") ELSE m1
       IN [m2 EXCEPT !.result = "queued"]
  ELSE LET subs == MultiSubs(correlationId, symbols, feedMode)
           m1 == [m EXCEPT !.subscriptions = MapSetAll(@, subs)]
           m2 == sendSubscriptionRequest(m1, <<correlationId>>, feedMode,
                                         GroupByExchange(subs), SUBSCRIBE)
       IN [m2 EXCEPT !.result = "sent"]

\* subscribeMultiple() without the check of the exchange types
subscribeMultiple_noSegmentCheck(m, correlationId, symbols, feedMode) ==
  IF feedMode = DEPTH_20 /\ Len(symbols) > Depth20Limit
  THEN [m EXCEPT !.result = "rejected"]
  ELSE IF m.connectionState # CONNECTED
  THEN LET m1 == [m EXCEPT !.pendingSubscriptions =
                               @ \o MultiSubs(correlationId, symbols, feedMode)]
           m2 == IF m1.connectionState = DISCONNECTED THEN connect(m1, "caller") ELSE m1
       IN [m2 EXCEPT !.result = "queued"]
  ELSE LET subs == MultiSubs(correlationId, symbols, feedMode)
           m1 == [m EXCEPT !.subscriptions = MapSetAll(@, subs)]
           m2 == sendSubscriptionRequest(m1, <<correlationId>>, feedMode,
                                         GroupByExchange(subs), SUBSCRIBE)
       IN [m2 EXCEPT !.result = "sent"]

subscribeMultiple(m, correlationId, symbols, feedMode) ==
  IF feedMode = DEPTH_20 /\ (\E i \in 1..Len(symbols) : symbols[i].exchangeType # NSE_CM)
  THEN [m EXCEPT !.result = "rejected"]
  ELSE IF feedMode = DEPTH_20 /\ Len(symbols) > Depth20Limit
  THEN [m EXCEPT !.result = "rejected"]
  ELSE IF m.connectionState # CONNECTED
  THEN LET m1 == [m EXCEPT !.pendingSubscriptions =
                               @ \o MultiSubs(correlationId, symbols, feedMode)]
           m2 == IF m1.connectionState = DISCONNECTED THEN connect(m1, "caller") ELSE m1
       IN [m2 EXCEPT !.result = "queued"]
  ELSE LET subs == MultiSubs(correlationId, symbols, feedMode)
           m1 == [m EXCEPT !.subscriptions = MapSetAll(@, subs)]
           m2 == sendSubscriptionRequest(m1, <<correlationId>>, feedMode,
                                         GroupByExchange(subs), SUBSCRIBE)
       IN [m2 EXCEPT !.result = "sent"]

\* unsubscribe() without the check of the connection state
unsubscribe_noStateCheck(m, correlationId, exchangeType, token) ==
  LET m1 == sendSubscriptionRequest(m, <<correlationId>>, LTP,
                                    <<[exchangeType |-> exchangeType,
                                       tokens |-> <<token>>]>>, UNSUBSCRIBE)
  IN [m1 EXCEPT !.subscriptions = MapDelete(@, getSubscriptionKey(exchangeType, token)),
                !.result = "sent"]

unsubscribe(m, correlationId, exchangeType, token) ==
  IF m.connectionState # CONNECTED
  THEN [m EXCEPT !.result = "rejected"]
  ELSE LET m1 == sendSubscriptionRequest(m, <<correlationId>>, LTP,
                                         <<[exchangeType |-> exchangeType,
                                            tokens |-> <<token>>]>>, UNSUBSCRIBE)
       IN [m1 EXCEPT !.subscriptions = MapDelete(@, getSubscriptionKey(exchangeType, token)),
                     !.result = "sent"]

RECURSIVE MapDeleteAll(_, _)
\* Map.delete of the key of every symbol
MapDeleteAll(map, symbols) ==
  IF symbols = <<>> THEN map
  ELSE MapDeleteAll(MapDelete(map, KeyOf(Head(symbols))), Tail(symbols))

unsubscribeMultiple(m, correlationId, symbols) ==
  IF m.connectionState # CONNECTED
  THEN [m EXCEPT !.result = "rejected"]
  ELSE LET m1 == [m EXCEPT !.subscriptions = MapDeleteAll(@, symbols)]
           m2 == sendSubscriptionRequest(m1, <<correlationId>>, LTP,
                                         GroupByExchange(symbols), UNSUBSCRIBE)
       IN [m2 EXCEPT !.result = "sent"]

\* WebSocket.close() of the transport, called on socket s
wsClose(socks, s) ==
  IF socks[s].readyState = "CONNECTING"
  THEN [socks EXCEPT ![s].readyState = "CLOSING", ![s].errPending = TRUE, ![s].local = TRUE]
  ELSE IF socks[s].readyState = "OPEN"
  THEN [socks EXCEPT ![s].readyState = "CLOSING", ![s].local = TRUE]
  ELSE IF socks[s].readyState = "CLOSING"
  THEN [socks EXCEPT ![s].local = TRUE]
  ELSE socks

\* disconnect() without the early return taken when already DISCONNECTED
disconnect_noGuard(m) ==
  LET m1 == clearHeartbeat([m EXCEPT !.connectionState = DISCONNECTING])
      m2 == [m1 EXCEPT !.pendingSubscriptions = <<>>]
  IN IF m2.ws # 0
     THEN emit([m2 EXCEPT !.subscriptions = <<>>,
                          !.sock = wsClose(@, m2.ws),
                          !.closed = @ + 1,
                          !.ws = 0,
                          !.connectionState = DISCONNECTED], "disconnect")
     ELSE m2

disconnect(m) ==
  IF m.connectionState = DISCONNECTED THEN m
  ELSE LET m1 == clearHeartbeat([m EXCEPT !.connectionState = DISCONNECTING])
           m2 == [m1 EXCEPT !.pendingSubscriptions = <<>>]
       IN IF m2.ws # 0
          THEN emit([m2 EXCEPT !.subscriptions = <<>>,
                               !.sock = wsClose(@, m2.ws),
                               !.closed = @ + 1,
                               !.ws = 0,
                               !.connectionState = DISCONNECTED], "disconnect")
          ELSE m2

\* an 'open' listener that emits `connected` before it flushes the queue
onOpen_emitFirst(m, s) ==
  LET m1 == [m EXCEPT !.connectionState = CONNECTED, !.reconnectAttempts = 0]
      m2 == setupHeartbeat(m1)
      m3 == emit(m2, "connected")
      m4 == [processPendingSubscriptions(m3) EXCEPT !.result = "resolved"]
  IN IF m.sock[s].origin = "timer" THEN resubscribe(m4) ELSE m4

\* the 'open' listener of socket s, then the continuation of the connect promise
onOpen(m, s) ==
  LET m1 == [m EXCEPT !.connectionState = CONNECTED, !.reconnectAttempts = 0]
      m2 == setupHeartbeat(m1)
      m3 == processPendingSubscriptions(m2)
      m4 == [emit(m3, "connected") EXCEPT !.result = "resolved"]
  IN IF m.sock[s].origin = "timer" THEN resubscribe(m4) ELSE m4

\* the 'error' listener of socket s; the promise is rejected if s never opened
onError(m, s) ==
  [emit([m EXCEPT !.connectionState = ERROR], "error")
     EXCEPT !.result = IF m.sock[s].readyState = "OPEN" THEN "none" ELSE "rejected"]

\* a 'close' listener that also clears the Registry
onClose_clearsRegistry(m) ==
  LET m1 == clearHeartbeat(m)
      m2 == emit([m1 EXCEPT !.connectionState = DISCONNECTED,
                            !.subscriptions = <<>>], "disconnect")
  IN attemptReconnect(m2)

\* the 'close' listener
onClose(m) ==
  LET m1 == clearHeartbeat(m)
      m2 == emit([m1 EXCEPT !.connectionState = DISCONNECTED], "disconnect")
  IN attemptReconnect(m2)

\* the setTimeout callback of attemptReconnect
onReconnectTimer(m) ==
  LET m1 == connect(m, "timer")
  IN IF m.connectionState = CONNECTED THEN resubscribe(m1) ELSE m1

\* the setTimeout callback of attemptReconnect when the constructor throws
onReconnectTimerThrows(m) ==
  LET m1 == connectCatch(m)
  IN IF m.connectionState = CONNECTED THEN resubscribe(m1) ELSE m1

----------------------------------------------------------------------------
(* The decoder parseBinaryMessage and the 'message' listener.               *)
(*                                                                          *)
(* A binary frame is a record data: length is the length of the buffer,     *)
(* head the bytes at offsets 0..26 that the buffer holds (byte by byte:     *)
(* mode, exchange type, token), and at the integer stored at each field     *)
(* offset behind the header (0 where at has no entry).  The values stay     *)
(* within 32 bits, so a 4-byte read and an 8-byte read of a field agree.    *)
(* A JavaScript number is the exact fraction [num, den] in lowest terms,    *)
(* so that a division is visible in the value (rounding is left out).       *)

RECURSIVE GCD(_, _)
GCD(a, b) == IF b = 0 THEN a ELSE GCD(b, a % b)

Abs(x) == IF x < 0 THEN 0 - x ELSE x

Number(x) == [num |-> x, den |-> 1]

\* the JavaScript quotient a / d for a positive integer d
Divide(a, d) ==
  LET n == a.num
      e == a.den * d
      g == GCD(Abs(n), e)
  IN [num |-> n \div g, den |-> e \div g]

ReadInt(data, offset) == IF offset \in DOMAIN data.at THEN data.at[offset] ELSE 0

\* tick.name = value
Put(tick, name, value) ==
  [f \in DOMAIN tick \cup {name} |-> IF f = name THEN value ELSE tick[f]]

\* the index at which the token loop stops: the first i whose byte is 0 or
\* lies behind the end of the buffer, 25 when the loop runs to its end
TokenStop(data) ==
  LET stops == {i \in 0..24 : 2 + i >= Len(data.head) \/ data.head[3 + i] = 0}
  IN IF stops = {} THEN 25 ELSE CHOOSE i \in stops : \A j \in stops : i <= j

\* a read behind the end of the buffer throws a RangeError
DecodeThrows(data) ==
  \/ Len(data.head) < 2
  \/ TokenStop(data) < 25 /\ 2 + TokenStop(data) >= Len(data.head)

\* String.fromCharCode of the bytes before the terminator
TokenOf(data) == [i \in 1..TokenStop(data) |-> data.head[2 + i]]

\* the fields gated by a minimum length: <<name, minimum length, offset>>
QuoteFields ==
  << <<"lastTradedPrice", 51, 43>>, <<"lastTradedQuantity", 59, 51>>,
     <<"averageTradedPrice", 67, 59>>, <<"volumeTradedForTheDay", 75, 67>>,
     <<"totalBuyQuantity", 83, 75>>, <<"totalSellQuantity", 91, 83>>,
     <<"openPrice", 99, 91>>, <<"highPrice", 107, 99>>,
     <<"lowPrice", 115, 107>>, <<"closePrice", 123, 115>> >>

SnapQuoteFields ==
  << <<"lastTradedTimestamp", 131, 123>>, <<"openInterest", 139, 131>>,
     <<"openInterestChangePercent", 147, 139>> >>

CircuitFields ==
  << <<"upperCircuitLimit", 355, 347>>, <<"lowerCircuitLimit", 363, 355>>,
     <<"fiftyTwoWeekHighPrice", 371, 363>>, <<"fiftyTwoWeekLowPrice", 379, 371>> >>

RECURSIVE ReadFields(_, _, _)
ReadFields(tick, data, fields) ==
  IF fields = <<>> THEN tick
  ELSE LET f == Head(fields)
       IN ReadFields(IF data.length >= f[2]
                       THEN Put(tick, f[1], Number(ReadInt(data, f[3])))
                       ELSE tick,
                     data, Tail(fields))

Entry(quantity, price, numOrders) ==
  [quantity |-> Number(quantity), price |-> Number(price), numOrders |-> Number(numOrders)]

\* the ten 20-byte packets of SNAP_QUOTE, split by their buy/sell flag
BestFive(tick, data) ==
  LET offset(i) == 147 + (i * 20)
      packets == [k \in 1..10 |->
                    [isBuy |-> ReadInt(data, offset(k - 1)) = 1,
                     entry |-> Entry(ReadInt(data, offset(k - 1) + 2),
                                     ReadInt(data, offset(k - 1) + 10),
                                     ReadInt(data, offset(k - 1) + 18))]]
      side(buy) == LET sel == SelectSeq(packets, LAMBDA p : p.isBuy = buy)
                   IN [k \in 1..Len(sel) |-> sel[k].entry]
  IN IF data.length >= 347
       THEN Put(Put(tick, "bestBids", side(TRUE)), "bestAsks", side(FALSE))
       ELSE tick

\* the twenty 10-byte packets of one side of DEPTH_20, from offset base
DepthSide(data, base) ==
  [k \in 1..20 |-> Entry(ReadInt(data, base + ((k - 1) * 10)),
                         ReadInt(data, base + ((k - 1) * 10) + 4),
                         ReadInt(data, base + ((k - 1) * 10) + 8))]

Depth20Fields(tick, data) ==
  LET t1 == Put(tick, "exchangeTimestamp", Number(ReadInt(data, 27)))
      t2 == Put(t1, "dummyPlaceholder", Number(ReadInt(data, 35)))
  IN Put(Put(t2, "bestBids", DepthSide(data, 43)), "bestAsks", DepthSide(data, 243))

divisor_always100(exchangeType) == 100

divisor(exchangeType) == IF exchangeType = CDE_FO THEN 10000000 ELSE 100

\* the price fields the normalization divides, after lastTradedPrice
NormalizedFields ==
  <<"openPrice", "highPrice", "lowPrice", "closePrice", "upperCircuitLimit",
    "lowerCircuitLimit", "fiftyTwoWeekHighPrice", "fiftyTwoWeekLowPrice">>

RECURSIVE DivideFields(_, _, _)
DivideFields(tick, names, d) ==
  IF names = <<>> THEN tick
  ELSE DivideFields(IF Head(names) \in DOMAIN tick
                      THEN Put(tick, Head(names), Divide(tick[Head(names)], d))
                      ELSE tick,
                    Tail(names), d)

DividePrices(entries, d) ==
  [k \in 1..Len(entries) |-> [entries[k] EXCEPT !.price = Divide(@, d)]]

\* the price normalization at the end of the decoder
normalize(tick, exchangeType) ==
  IF "lastTradedPrice" \in DOMAIN tick
    THEN LET d == divisor(exchangeType)
             t1 == Put(tick, "lastTradedPrice", Divide(tick["lastTradedPrice"], d))
             t2 == DivideFields(t1, NormalizedFields, d)
             t3 == IF "bestBids" \in DOMAIN t2
                     THEN Put(t2, "bestBids", DividePrices(t2["bestBids"], d)) ELSE t2
         IN IF "bestAsks" \in DOMAIN t3
              THEN Put(t3, "bestAsks", DividePrices(t3["bestAsks"], d)) ELSE t3
    ELSE tick

\* the tick the decoder builds from a frame whose header can be read
decode(data) ==
  LET mode == data.head[1]
      exchangeType == data.head[2]
      base == [f \in {"mode", "exchangeType", "token"} |->
                 IF f = "mode" THEN mode
                 ELSE IF f = "exchangeType" THEN exchangeType ELSE TokenOf(data)]
      t1 == ReadFields(base, data,
                       << <<"sequenceNumber", 35, 27>>, <<"exchangeTimestamp", 43, 35>> >>)
      t2 == IF mode = LTP
              THEN ReadFields(t1, data, << <<"lastTradedPrice", 51, 43>> >>)
            ELSE IF mode = QUOTE
              THEN ReadFields(t1, data, QuoteFields)
            ELSE IF mode = SNAP_QUOTE
              THEN ReadFields(BestFive(ReadFields(t1, data, QuoteFields \o SnapQuoteFields),
                                       data),
                              data, CircuitFields)
            ELSE IF mode = DEPTH_20 /\ exchangeType = NSE_CM /\ data.length >= 443
              THEN Depth20Fields(t1, data)
            ELSE t1
  IN normalize(t2, exchangeType)

\* this.subscriptions.get(key), for a key the Registry holds
MapGet(map, key) == map[CHOOSE i \in 1..Len(map) : KeyOf(map[i]) = key]

emitTick(m, channel, tick) ==
  [m EXCEPT !.ticks = Append(@, [channel |-> channel, tick |-> tick])]

parseBinaryMessage_genericOnly(m, data) ==
  IF DecodeThrows(data) THEN m ELSE emitTick(m, <<"tick">>, decode(data))

\* a frame that cannot be decoded is logged and dropped
parseBinaryMessage(m, data) ==
  IF DecodeThrows(data) THEN m
  ELSE LET tick == decode(data)
           m1 == emitTick(m, <<"tick">>, tick)
           key == getSubscriptionKey(tick["exchangeType"], tick["token"])
       IN IF MapHas(m.subscriptions, key)
            THEN emitTick(m1, <<"tick:", MapGet(m.subscriptions, key).correlationId>>, tick)
            ELSE m1

\* a 'message' listener that hands every message to the decoder
onMessage_decodeAll(m, data) ==
  IF data.type = "string"
    THEN emitTick(m, <<"tick">>, data)
    ELSE parseBinaryMessage(m, data)

\* the 'message' listener: text is a heartbeat answer, a JSON message or
\* something else; everything that is not a string goes to the decoder
onMessage(m, data) ==
  IF data.type = "string"
    THEN IF data.text = "pong" THEN m
         ELSE IF data.text = "json"
           THEN IF data.errorCode \/ data.errorMessage
                  THEN emit(m, "error") ELSE emit(m, "message")
         ELSE m
    ELSE parseBinaryMessage(m, data)

----------------------------------------------------------------------------
(* Actions *)

Count(seq, x) == Cardinality({i \in 1..Len(seq) : seq[i] = x})

Emitted(event) == \E i \in 1..Len(last.events) : last.events[i] = event

\* the state after a handler that ended in m; arg is the handler's argument
Apply(op, arg, m) ==
  /\ connectionState' = m.connectionState
  /\ ws' = m.ws
  /\ subscriptions' = m.subscriptions
  /\ reconnectAttempts' = m.reconnectAttempts
  /\ heartbeatInterval' = m.heartbeatInterval
  /\ pendingSubscriptions' = m.pendingSubscriptions
  /\ sock' = m.sock
  /\ timers' = m.timers
  /\ exhausted' = IF op = "open" THEN FALSE
                  ELSE exhausted \/ Count(m.events, "reconnect_failed") > 0
  /\ last' = [op |-> op, arg |-> arg, result |-> m.result, frames |-> m.frames,
              events |-> m.events, seen |-> m.seen, ticks |-> m.ticks,
              created |-> m.created, closed |-> m.closed]
  /\ UNCHANGED orderVars

CallConnect ==
  /\ connectionState = CONNECTED \/ HasFreeSocket(Cur)
  /\ Apply("connect", 0, connect(Cur, "caller"))

\* connect() called when the constructor of the socket throws (argument 1)
CallConnectThrows == Apply("connect", 1, connectCatch(Cur))

CallDisconnect == Apply("disconnect", 0, disconnect(Cur))

\* maxPending bounds the queue, and a socket must be free when the call connects
CallSubscribe(sub, maxPending) ==
  /\ subscribe(Cur, sub).result = "queued" =>
       /\ Len(pendingSubscriptions) < maxPending
       /\ connectionState = DISCONNECTED => HasFreeSocket(Cur)
  /\ Apply("subscribe", sub, subscribe(Cur, sub))

CallSubscribeMultiple(correlationId, symbols, feedMode, maxPending) ==
  /\ subscribeMultiple(Cur, correlationId, symbols, feedMode).result = "queued" =>
       /\ Len(pendingSubscriptions) + Len(symbols) <= maxPending
       /\ connectionState = DISCONNECTED => HasFreeSocket(Cur)
  /\ Apply("subscribeMultiple", <<correlationId, symbols, feedMode>>,
           subscribeMultiple(Cur, correlationId, symbols, feedMode))

CallUnsubscribe(correlationId, exchangeType, token) ==
  Apply("unsubscribe", <<correlationId, exchangeType, token>>,
        unsubscribe(Cur, correlationId, exchangeType, token))

CallUnsubscribeMultiple(correlationId, symbols) ==
  Apply("unsubscribeMultiple", <<correlationId, symbols>>,
        unsubscribeMultiple(Cur, correlationId, symbols))

ReconnectTimer ==
  /\ timers > 0
  /\ connectionState = CONNECTED \/ HasFreeSocket(Cur)
  /\ Apply("timer", 0, onReconnectTimer([Cur EXCEPT !.timers = @ - 1]))

\* the reconnect callback when the constructor of the socket throws
ReconnectTimerThrows ==
  /\ timers > 0
  /\ Apply("timer", 1, onReconnectTimerThrows([Cur EXCEPT !.timers = @ - 1]))

SocketOpen(s) ==
  /\ sock[s].readyState = "CONNECTING"
  /\ Apply("open", s, onOpen([Cur EXCEPT !.sock[s].readyState = "OPEN"], s))

SocketError(s) ==
  /\ \/ sock[s].readyState \in {"CONNECTING", "OPEN"}
     \/ sock[s].errPending
  /\ Apply("error", s, [onError(Cur, s) EXCEPT !.sock[s].readyState = "CLOSING",
                                               !.sock[s].errPending = FALSE])

\* MaxTimers bounds the timers the handler may arm
SocketClose(s) ==
  /\ \/ sock[s].readyState = "OPEN"
     \/ sock[s].readyState = "CLOSING" /\ ~sock[s].errPending
  /\ reconnectAttempts < maxReconnectAttempts => timers < MaxTimers
  /\ Apply("close", s, onClose([Cur EXCEPT !.sock[s] = ClosedSocket]))

\* a message arrives on an open socket
SocketMessage(s, data) ==
  /\ sock[s].readyState = "OPEN"
  /\ Apply("message", data, onMessage(Cur, data))

----------------------------------------------------------------------------
(* Specification Spec: the life cycle, with a small universe of symbols *)

Sub(correlationId, exchangeType, token, feedMode) ==
  [correlationId |-> <<correlationId>>, exchangeType |-> exchangeType,
   token |-> token, feedMode |-> feedMode]

Sym(exchangeType, token) == [exchangeType |-> exchangeType, token |-> token]

SubscribeCalls ==
  { Sub("a", NSE_CM, 1, LTP), Sub("d", NSE_CM, 2, DEPTH_20), Sub("e", BSE_CM, 1, DEPTH_20) }

UnsubscribeCalls == { <<"u", NSE_CM, 1>> }

Init ==
  /\ connectionState = DISCONNECTED
  /\ ws = 0
  /\ subscriptions = <<>>
  /\ reconnectAttempts = 0
  /\ heartbeatInterval = FALSE
  /\ pendingSubscriptions = <<>>
  /\ sock = [s \in SocketIds |-> ClosedSocket]
  /\ timers = 0
  /\ exhausted = FALSE
  /\ last = [op |-> "init", arg |-> 0, result |-> "none", frames |-> <<>>,
             events |-> <<>>, seen |-> <<>>, ticks |-> <<>>, created |-> 0,
             closed |-> 0]
  /\ order = [connectionState |-> DISCONNECTED, ws |-> 0, reconnectAttempts |-> 0,
              heartbeatInterval |-> FALSE, pingInterval |-> FALSE, clientCode |-> "",
              jwtToken |-> 1, auth |-> [s \in SocketIds |-> 0],
              sock |-> [s \in SocketIds |-> ClosedSocket], timers |-> 0]
  /\ orderLast = [op |-> "init", arg |-> 0, result |-> "none", events |-> <<>>,
                  created |-> 0, closed |-> 0, armed |-> 0, attempts |-> 0]
  /\ authRejected = FALSE

Next ==
  \/ CallConnect
  \/ CallDisconnect
  \/ \E sub \in SubscribeCalls : CallSubscribe(sub, MaxPending)
  \/ \E c \in UnsubscribeCalls : CallUnsubscribe(c[1], c[2], c[3])
  \/ ReconnectTimer
  \/ \E s \in SocketIds : SocketOpen(s)
  \/ \E s \in SocketIds : SocketError(s)
  \/ \E s \in SocketIds : SocketClose(s)

Spec == Init /\ [][Next]_vars

----------------------------------------------------------------------------
(* Specification SpecDepth: batches around the DEPTH_20 cap, on connections *)
(* that open and are closed by the caller only (the transport delivers no   *)
(* error and no close here, so no reconnect is scheduled).                  *)

\* the NSE_CM symbols with tokens a..b
Range(a, b) == [i \in 1..(b - a + 1) |-> Sym(NSE_CM, a + i - 1)]

\* the caller asks for one DEPTH_20 token after the other: the lowest token
\* that is neither registered nor queued (the last one again when all are)
NextDepthToken ==
  LET known == {subscriptions[i].token : i \in 1..Len(subscriptions)}
                 \cup {pendingSubscriptions[i].token : i \in 1..Len(pendingSubscriptions)}
      fresh == (1..(Depth20Limit + 1)) \ known
  IN IF fresh = {} THEN Depth20Limit + 1
     ELSE CHOOSE t \in fresh : \A u \in fresh : t <= u

DepthSubscribeCalls == { Sub("s", NSE_CM, NextDepthToken, DEPTH_20) }

DepthMultiCalls ==
  { <<"x", Range(1, Depth20Limit), DEPTH_20>>,
    <<"y", Range(1, Depth20Limit + 1), DEPTH_20>>,
    <<"z", <<Sym(NSE_CM, 1), Sym(BSE_CM, 1)>>, DEPTH_20>> }

NextDepth ==
  \/ CallConnect
  \/ CallDisconnect
  \/ \E sub \in DepthSubscribeCalls : CallSubscribe(sub, MaxPendingDepth)
  \/ \E c \in DepthMultiCalls : CallSubscribeMultiple(c[1], c[2], c[3], MaxPendingDepth)
  \/ \E s \in SocketIds : SocketOpen(s)

SpecDepth == Init /\ [][NextDepth]_vars

----------------------------------------------------------------------------
(* Specification SpecTick: frames arriving on the connections of the life   *)
(* cycle.  A token is the sequence of its character codes, in the Registry  *)
(* as on the wire.  Connections end by a close of the transport or of the   *)
(* caller; transport errors and the reconnect timer are left to Spec.       *)

\* bytes 0..26 of a frame: mode, exchange type, the token padded with zeros
Header(mode, exchangeType, token) ==
  <<mode, exchangeType>> \o token \o [i \in 1..(25 - Len(token)) |-> 0]

\* a buffer of the given length; a short one holds a part of the header only
Frame(length, mode, exchangeType, token, at) ==
  [type |-> "binary", length |-> length,
   head |-> SubSeq(Header(mode, exchangeType, token), 1,
                   IF length < 27 THEN length ELSE 27),
   at |-> at]

\* offsets of the price fields of LTP, QUOTE and SNAP_QUOTE frames
PriceOffsets == {43, 59, 91, 99, 107, 115, 347, 355, 363, 371}

\* offsets of the other fields of these frames
OtherOffsets == {27, 35, 51, 67, 75, 83, 123, 131, 139}

\* the ten best-five packets: flag, quantity, price, number of orders
PacketOffsets == {147 + (i * 20) + j : i \in 0..9, j \in {0, 2, 10, 18}}

\* a payload whose last traded price is p; every other price differs from it,
\* the first five packets are bids and the last five asks
Payload(p) ==
  [o \in PriceOffsets \cup OtherOffsets \cup PacketOffsets |->
     IF o \in PriceOffsets THEN p + (o - 43)
     ELSE IF o \in OtherOffsets THEN o
     ELSE IF (o - 147) % 20 = 0 THEN (IF o < 247 THEN 1 ELSE 0)
     ELSE IF (o - 147) % 20 = 10 THEN p + o
     ELSE o]

\* the payload of a DEPTH_20 frame: timestamp, placeholder, 20 bids, 20 asks
DepthPayload(p) ==
  [o \in {27, 35} \cup {43 + (i * 10) + j : i \in 0..39, j \in {0, 4, 8}} |->
     IF o >= 43 /\ (o - 43) % 10 = 4 THEN p + o ELSE o]

TokenA == <<49>>          \* "1"
TokenB == <<49, 50>>      \* "12"

TickFrames ==
  { Frame(51, LTP, NSE_CM, TokenA, Payload(45000)),
    Frame(51, LTP, CDE_FO, TokenA, Payload(10000000)),
    Frame(51, LTP, BSE_CM, TokenB, Payload(100)),
    Frame(43, LTP, NSE_CM, TokenA, Payload(45000)),
    Frame(123, QUOTE, NSE_CM, TokenA, Payload(45000)),
    Frame(60, QUOTE, CDE_FO, TokenA, Payload(10000000)),
    Frame(379, SNAP_QUOTE, NSE_CM, TokenB, Payload(100)),
    Frame(379, SNAP_QUOTE, CDE_FO, TokenA, Payload(10000000)),
    Frame(443, DEPTH_20, NSE_CM, TokenA, DepthPayload(45000)),
    Frame(443, DEPTH_20, BSE_CM, TokenA, DepthPayload(45000)),
    Frame(4, LTP, NSE_CM, TokenA, Payload(45000)),
    Frame(3, LTP, NSE_CM, TokenA, Payload(45000)),
    Frame(1, LTP, NSE_CM, TokenA, Payload(45000)) }

TextMessages ==
  { [type |-> "string", text |-> "pong", errorCode |-> FALSE, errorMessage |-> FALSE],
    [type |-> "string", text |-> "json", errorCode |-> TRUE, errorMessage |-> FALSE],
    [type |-> "string", text |-> "json", errorCode |-> FALSE, errorMessage |-> FALSE],
    [type |-> "string", text |-> "other", errorCode |-> FALSE, errorMessage |-> FALSE] }

TickSubscribeCalls ==
  { Sub("a", NSE_CM, TokenA, LTP), Sub("c", CDE_FO, TokenA, SNAP_QUOTE) }

TickUnsubscribeCalls == { <<"u", NSE_CM, TokenA>> }

NextTick ==
  \/ CallConnect
  \/ CallDisconnect
  \/ \E sub \in TickSubscribeCalls : CallSubscribe(sub, MaxPending)
  \/ \E c \in TickUnsubscribeCalls : CallUnsubscribe(c[1], c[2], c[3])
  \/ \E s \in SocketIds : SocketOpen(s)
  \/ \E s \in SocketIds : SocketClose(s)
  \/ \E s \in SocketIds, data \in TickFrames \cup TextMessages : SocketMessage(s, data)

SpecTick == Init /\ [][NextTick]_vars

----------------------------------------------------------------------------
(* Specification SpecConnect: connection attempts that fail, by an error of *)
(* the transport or in the constructor of the socket.                       *)

ConnectSubscribeCalls == { Sub("a", NSE_CM, 1, LTP) }

NextConnect ==
  \/ CallConnect
  \/ CallConnectThrows
  \/ CallDisconnect
  \/ \E sub \in ConnectSubscribeCalls : CallSubscribe(sub, MaxPending)
  \/ ReconnectTimer
  \/ ReconnectTimerThrows
  \/ \E s \in SocketIds : SocketOpen(s)
  \/ \E s \in SocketIds : SocketError(s)
  \/ \E s \in SocketIds : SocketClose(s)

SpecConnect == Init /\ [][NextConnect]_vars

----------------------------------------------------------------------------
(* Specification SpecUnsub: the life cycle of Spec with two symbols and     *)
(* both ways of unsubscribing.                                              *)

UnsubSubscribeCalls == { Sub("a", NSE_CM, 1, LTP), Sub("d", NSE_CM, 2, DEPTH_20) }

UnsubMultiCalls == { <<"v", <<Sym(NSE_CM, 1), Sym(NSE_CM, 2)>>>> }

NextUnsub ==
  \/ CallConnect
  \/ CallDisconnect
  \/ \E sub \in UnsubSubscribeCalls : CallSubscribe(sub, MaxPending)
  \/ \E c \in UnsubscribeCalls : CallUnsubscribe(c[1], c[2], c[3])
  \/ \E c \in UnsubMultiCalls : CallUnsubscribeMultiple(c[1], c[2])
  \/ ReconnectTimer
  \/ \E s \in SocketIds : SocketOpen(s)
  \/ \E s \in SocketIds : SocketError(s)
  \/ \E s \in SocketIds : SocketClose(s)

SpecUnsub == Init /\ [][NextUnsub]_vars

----------------------------------------------------------------------------
(* Specification SpecReplay: the replay after a reconnect, for Registries   *)
(* around the batch sizes.  It starts on an open connection whose Registry  *)
(* was filled by subscribe() calls while CONNECTED.                         *)

\* n entries of one exchange type and mode, with tokens from, from + 1, ...
Block(exchangeType, feedMode, from, n) ==
  [i \in 1..n |-> Sub("r", exchangeType, from + i - 1, feedMode)]

\* LTP entries on NSE_CM and BSE_CM, QUOTE entries on BSE_CM between them,
\* DEPTH_20 entries on NSE_CM
ReplayRegistry(nNse, nBse, nQuote, nDepth) ==
  Block(NSE_CM, LTP, 1, nNse) \o Block(BSE_CM, QUOTE, 1, nQuote)
    \o Block(BSE_CM, LTP, 1001, nBse) \o Block(NSE_CM, DEPTH_20, 2001, nDepth)

ReplayRegistries ==
  { ReplayRegistry(nNse, nBse, nQuote, nDepth) :
      nNse \in {0, 1, batchSize - 1, batchSize + 1, (2 * batchSize) + 1},
      nBse \in {0, 2, batchSize},
      nQuote \in {0, 3},
      nDepth \in {0, Depth20Limit, Depth20Limit + 1, (2 * Depth20Limit) + 1} }

InitReplay ==
  /\ connectionState = CONNECTED
  /\ ws = 1
  /\ subscriptions \in ReplayRegistries
  /\ reconnectAttempts = 0
  /\ heartbeatInterval = TRUE
  /\ pendingSubscriptions = <<>>
  /\ sock = [s \in SocketIds |->
               IF s = 1 THEN [readyState |-> "OPEN", errPending |-> FALSE,
                              origin |-> "caller", local |-> FALSE]
               ELSE ClosedSocket]
  /\ timers = 0
  /\ exhausted = FALSE
  /\ last = [op |-> "init", arg |-> 0, result |-> "none", frames |-> <<>>,
             events |-> <<>>, seen |-> <<>>, ticks |-> <<>>, created |-> 0,
             closed |-> 0]
  /\ order = [connectionState |-> DISCONNECTED, ws |-> 0, reconnectAttempts |-> 0,
              heartbeatInterval |-> FALSE, pingInterval |-> FALSE, clientCode |-> "",
              jwtToken |-> 1, auth |-> [s \in SocketIds |-> 0],
              sock |-> [s \in SocketIds |-> ClosedSocket], timers |-> 0]
  /\ orderLast = [op |-> "init", arg |-> 0, result |-> "none", events |-> <<>>,
                  created |-> 0, closed |-> 0, armed |-> 0, attempts |-> 0]
  /\ authRejected = FALSE

NextReplay ==
  \/ ReconnectTimer
  \/ \E s \in SocketIds : SocketOpen(s)
  \/ \E s \in SocketIds : SocketError(s)
  \/ \E s \in SocketIds : SocketClose(s)

SpecReplay == InitReplay /\ [][NextReplay]_vars

----------------------------------------------------------------------------
(* Specification SpecQueue: subscribe() and subscribeMultiple() in every    *)
(* connection state of the life cycle.                                      *)

QueueSubscribeCalls == { Sub("a", NSE_CM, 1, LTP), Sub("e", BSE_CM, 1, DEPTH_20) }

QueueMultiCalls == { <<"m", <<Sym(NSE_CM, 1), Sym(BSE_CM, 1)>>, QUOTE>> }

NextQueue ==
  \/ CallConnect
  \/ CallDisconnect
  \/ \E sub \in QueueSubscribeCalls : CallSubscribe(sub, MaxPending)
  \/ \E c \in QueueMultiCalls : CallSubscribeMultiple(c[1], c[2], c[3], MaxPending)
  \/ ReconnectTimer
  \/ \E s \in SocketIds : SocketOpen(s)
  \/ \E s \in SocketIds : SocketError(s)
  \/ \E s \in SocketIds : SocketClose(s)

SpecQueue == Init /\ [][NextQueue]_vars

----------------------------------------------------------------------------
(* Specification SpecOverwrite: repeated subscribe() calls for one key, in  *)
(* different feed modes, queued or sent, on connections that open and are   *)
(* closed by the caller or the transport.                                   *)

OverwriteSubscribeCalls ==
  { Sub("a", NSE_CM, 1, LTP), Sub("b", NSE_CM, 1, QUOTE), Sub("c", NSE_CM, 2, LTP) }

NextOverwrite ==
  \/ CallConnect
  \/ CallDisconnect
  \/ \E sub \in OverwriteSubscribeCalls : CallSubscribe(sub, MaxPendingOverwrite)
  \/ \E c \in UnsubscribeCalls : CallUnsubscribe(c[1], c[2], c[3])
  \/ \E s \in SocketIds : SocketOpen(s)
  \/ \E s \in SocketIds : SocketClose(s)

SpecOverwrite == Init /\ [][NextOverwrite]_vars

----------------------------------------------------------------------------
(* Specification SpecGate: the decoder on buffers of every length around    *)
(* the header and around the minimum length of each field.  It starts on an *)
(* open connection whose Registry holds one entry, and frames arrive.       *)

\* the minimum lengths the decoder compares the length of the buffer with
GateBoundaries ==
  {35, 43, 51, 59, 67, 75, 83, 91, 99, 107, 115, 123, 131, 139, 147,
   347, 355, 363, 371, 379, 443}

GateLengths == (0..28) \cup {b - 1 : b \in GateBoundaries} \cup GateBoundaries \cup {444}

DepthLengths == {26, 27, 34, 35, 42, 43, 242, 243, 442, 443, 444}

\* a token that fills its 25 bytes, so that no zero byte ends it
Token25 == [i \in 1..25 |-> 49]

GateFrames ==
  { Frame(l, LTP, NSE_CM, TokenA, Payload(45000)) : l \in GateLengths }
    \cup { Frame(l, QUOTE, NSE_CM, TokenA, Payload(45000)) : l \in GateLengths }
    \cup { Frame(l, SNAP_QUOTE, CDE_FO, TokenA, Payload(10000000)) : l \in GateLengths }
    \cup { Frame(l, LTP, NSE_CM, Token25, Payload(45000)) : l \in 0..28 }
    \cup { Frame(l, DEPTH_20, e, TokenA, DepthPayload(45000)) :
             l \in DepthLengths, e \in {NSE_CM, BSE_CM, CDE_FO} }

InitGate ==
  /\ connectionState = CONNECTED
  /\ ws = 1
  /\ subscriptions = << Sub("a", NSE_CM, TokenA, LTP) >>
  /\ reconnectAttempts = 0
  /\ heartbeatInterval = TRUE
  /\ pendingSubscriptions = <<>>
  /\ sock = [s \in SocketIds |->
               IF s = 1 THEN [readyState |-> "OPEN", errPending |-> FALSE,
                              origin |-> "caller", local |-> FALSE]
               ELSE ClosedSocket]
  /\ timers = 0
  /\ exhausted = FALSE
  /\ last = [op |-> "init", arg |-> 0, result |-> "none", frames |-> <<>>,
             events |-> <<>>, seen |-> <<>>, ticks |-> <<>>, created |-> 0,
             closed |-> 0]
  /\ order = [connectionState |-> DISCONNECTED, ws |-> 0, reconnectAttempts |-> 0,
              heartbeatInterval |-> FALSE, pingInterval |-> FALSE, clientCode |-> "",
              jwtToken |-> 1, auth |-> [s \in SocketIds |-> 0],
              sock |-> [s \in SocketIds |-> ClosedSocket], timers |-> 0]
  /\ orderLast = [op |-> "init", arg |-> 0, result |-> "none", events |-> <<>>,
                  created |-> 0, closed |-> 0, armed |-> 0, attempts |-> 0]
  /\ authRejected = FALSE

NextGate == \E s \in SocketIds, data \in GateFrames : SocketMessage(s, data)

SpecGate == InitGate /\ [][NextGate]_vars

----------------------------------------------------------------------------
(* The order-status client OrderStatusWebSocket                            *)
(* (src/src/lib/OrderStatusWebSocket.ts).  Same event loop and transport.  *)
(* The object is the record `order`; a handler works on a copy o that also *)
(* holds what the handler emitted, created and closed.  An event is a      *)
(* tuple: <<"error">>, <<"order-update">>, <<"order-", x>> for the channel *)
(* `order-${x}`.                                                           *)

OrderStatusCode_CONNECTED == "AB00"

OrderCur ==
  [connectionState |-> order.connectionState, ws |-> order.ws,
   reconnectAttempts |-> order.reconnectAttempts,
   heartbeatInterval |-> order.heartbeatInterval, pingInterval |-> order.pingInterval,
   clientCode |-> order.clientCode, jwtToken |-> order.jwtToken, auth |-> order.auth,
   sock |-> order.sock, timers |-> order.timers,
   events |-> <<>>, created |-> 0, closed |-> 0, armed |-> 0, result |-> "none"]

OrderEmit(o, event) == [o EXCEPT !.events = Append(@, event)]

OrderStatus_clearHeartbeat(o) ==
  [o EXCEPT !.heartbeatInterval = FALSE, !.pingInterval = FALSE]

OrderStatus_setupHeartbeat(o) ==
  [OrderStatus_clearHeartbeat(o) EXCEPT !.pingInterval = TRUE]

\* auth[s] is the token in the Authorization header socket s was created with
OrderStatus_connect(o) ==
  IF o.connectionState = CONNECTED
  THEN [o EXCEPT !.result = "resolved"]
  ELSE LET s == FreeSocket(o)
       IN [o EXCEPT !.connectionState = CONNECTING,
                    !.ws = s,
                    !.auth[s] = o.jwtToken,
                    !.sock[s] = [readyState |-> "CONNECTING", errPending |-> FALSE,
                                 origin |-> "caller", local |-> FALSE],
                    !.created = @ + 1,
                    !.result = "pending"]

\* attemptReconnect() that gives up one close later
OrderStatus_attemptReconnect_sixth(o) ==
  IF o.reconnectAttempts > maxReconnectAttempts
  THEN OrderEmit(o, <<"reconnect_failed">>)
  ELSE [OrderEmit(o, <<"reconnecting">>) EXCEPT !.reconnectAttempts = @ + 1,
                                                !.timers = @ + 1,
                                                !.armed = @ + 1]

\* armed counts the setTimeout calls of the handler
OrderStatus_attemptReconnect(o) ==
  IF o.reconnectAttempts >= maxReconnectAttempts
  THEN OrderEmit(o, <<"reconnect_failed">>)
  ELSE [OrderEmit(o, <<"reconnecting">>) EXCEPT !.reconnectAttempts = @ + 1,
                                                !.timers = @ + 1,
                                                !.armed = @ + 1]

OrderStatus_disconnect(o) ==
  IF o.connectionState = DISCONNECTED THEN o
  ELSE LET o1 == OrderStatus_clearHeartbeat([o EXCEPT !.connectionState = DISCONNECTING])
       IN IF o1.ws # 0
          THEN OrderEmit([o1 EXCEPT !.sock = wsClose(@, o1.ws),
                                    !.closed = @ + 1,
                                    !.ws = 0,
                                    !.connectionState = DISCONNECTED], <<"disconnect">>)
          ELSE o1

\* the 'open' listener
OrderStatus_onOpen(o) ==
  LET o1 == [o EXCEPT !.connectionState = CONNECTED, !.reconnectAttempts = 0]
      o2 == OrderStatus_setupHeartbeat(o1)
  IN [OrderEmit(o2, <<"connected">>) EXCEPT !.result = "resolved"]

\* the 'error' listener of socket s
OrderStatus_onError(o, s) ==
  [OrderEmit([o EXCEPT !.connectionState = ERROR], <<"error">>)
     EXCEPT !.result = IF o.sock[s].readyState = "OPEN" THEN "none" ELSE "rejected"]

\* the 'close' listener
OrderStatus_onClose(o) ==
  LET o1 == OrderStatus_clearHeartbeat(o)
      o2 == OrderEmit([o1 EXCEPT !.connectionState = DISCONNECTED], <<"disconnect">>)
  IN OrderStatus_attemptReconnect(o2)

\* the setTimeout callback of attemptReconnect
OrderStatus_onReconnectTimer(o) == OrderStatus_connect(o)

OrderStatus_setJwtToken(o, jwtToken) ==
  LET o1 == [o EXCEPT !.jwtToken = jwtToken]
  IN IF o1.connectionState = CONNECTED
     THEN [OrderStatus_connect(OrderStatus_disconnect(o1)) EXCEPT !.result = "none"]
     ELSE o1

\* the handling of a parsed JSON frame, with every emission that fans out
OrderStatus_onFrame_fanOutAll(o, message) ==
  LET o1 == IF message.orderStatus = OrderStatusCode_CONNECTED
            THEN [o EXCEPT !.clientCode = message.userId] ELSE o
      o2 == OrderEmit(o1, <<"message">>)
      o3 == IF message.orderStatus # "" /\ message.orderStatus # OrderStatusCode_CONNECTED
            THEN OrderEmit(OrderEmit(o2, <<"order-update">>),
                           <<"order-", message.orderStatus>>)
            ELSE o2
  IN IF message.orderStatus # "" /\ message.orderStatus # OrderStatusCode_CONNECTED
        /\ message.orderid # ""
     THEN OrderEmit(o3, <<"order-", message.orderid>>)
     ELSE o3

\* the handling of a parsed JSON frame that forwards the acknowledgment too
OrderStatus_onFrame_forwardAck(o, message) ==
  LET o1 == IF message.orderStatus = OrderStatusCode_CONNECTED
            THEN [o EXCEPT !.clientCode = message.userId] ELSE o
      o2 == OrderEmit(OrderEmit(OrderEmit(o1, <<"message">>), <<"order-update">>),
                      <<"order-", message.orderStatus>>)
  IN IF message.orderid # "" THEN OrderEmit(o2, <<"order-", message.orderid>>) ELSE o2

\* the handling of a parsed JSON frame that disconnects on every error frame
OrderStatus_onFrame_disconnectAll(o, message) ==
  LET o1 == IF message.orderStatus = OrderStatusCode_CONNECTED
            THEN [o EXCEPT !.clientCode = message.userId] ELSE o
  IN IF message.statusCode # "200"
     THEN OrderStatus_disconnect(OrderEmit(o1, <<"error">>))
     ELSE OrderStatus_onFrame_fanOutAll(o, message)

\* the body of the 'message' listener once JSON.parse returned message
OrderStatus_onFrame(o, message) ==
  LET o1 == IF message.orderStatus = OrderStatusCode_CONNECTED
            THEN [o EXCEPT !.clientCode = message.userId] ELSE o
  IN IF message.statusCode # "200"
     THEN LET o2 == OrderEmit(o1, <<"error">>)
          IN IF message.statusCode \in {"401", "403", "429"}
             THEN OrderStatus_disconnect(o2) ELSE o2
     ELSE LET o2 == OrderEmit(o1, <<"message">>)
              o3 == IF message.orderStatus # ""
                       /\ message.orderStatus # OrderStatusCode_CONNECTED
                    THEN OrderEmit(OrderEmit(o2, <<"order-update">>),
                                   <<"order-", message.orderStatus>>)
                    ELSE o2
          IN IF message.orderStatus # ""
                /\ message.orderStatus # OrderStatusCode_CONNECTED
                /\ message.orderid # ""
             THEN OrderEmit(o3, <<"order-", message.orderid>>)
             ELSE o3

\* the 'message' listener: data is a text frame ("pong", text that is not
\* JSON, or the JSON text of message) or a binary frame
OrderStatus_onMessage(o, data) ==
  IF data.type = "json" THEN OrderStatus_onFrame(o, data.message) ELSE o

\* the state after a handler of the order-status client that ended in o
OrderApply(op, arg, o) ==
  /\ order' = [connectionState |-> o.connectionState, ws |-> o.ws,
               reconnectAttempts |-> o.reconnectAttempts,
               heartbeatInterval |-> o.heartbeatInterval,
               pingInterval |-> o.pingInterval,
               clientCode |-> o.clientCode, jwtToken |-> o.jwtToken, auth |-> o.auth,
               sock |-> o.sock, timers |-> o.timers]
  /\ orderLast' = [op |-> op, arg |-> arg, result |-> o.result, events |-> o.events,
                   created |-> o.created, closed |-> o.closed, armed |-> o.armed,
                   attempts |-> IF op = "open" THEN 0 ELSE orderLast.attempts + o.armed]
  /\ authRejected' =
       IF op = "connect" THEN FALSE
       ELSE authRejected
            \/ (op = "message" /\ arg.type = "json"
                /\ arg.message.statusCode \in {"401", "403", "429"})
  /\ UNCHANGED marketVars

OrderCallConnect ==
  /\ order.connectionState = CONNECTED \/ HasFreeSocket(OrderCur)
  /\ OrderApply("connect", 0, OrderStatus_connect(OrderCur))

OrderCallDisconnect == OrderApply("disconnect", 0, OrderStatus_disconnect(OrderCur))

\* a socket must be free when the call reconnects
OrderCallSetJwtToken(jwtToken) ==
  /\ order.connectionState = CONNECTED => HasFreeSocket(OrderCur)
  /\ OrderApply("setJwtToken", jwtToken, OrderStatus_setJwtToken(OrderCur, jwtToken))

OrderReconnectTimer ==
  /\ order.timers > 0
  /\ order.connectionState = CONNECTED \/ HasFreeSocket(OrderCur)
  /\ OrderApply("timer", 0, OrderStatus_onReconnectTimer([OrderCur EXCEPT !.timers = @ - 1]))

OrderSocketOpen(s) ==
  /\ order.sock[s].readyState = "CONNECTING"
  /\ OrderApply("open", s, OrderStatus_onOpen([OrderCur EXCEPT !.sock[s].readyState = "OPEN"]))

OrderSocketMessage(s, data) ==
  /\ order.sock[s].readyState = "OPEN"
  /\ OrderApply("message", data, OrderStatus_onMessage(OrderCur, data))

OrderSocketError(s) ==
  /\ \/ order.sock[s].readyState \in {"CONNECTING", "OPEN"}
     \/ order.sock[s].errPending
  /\ OrderApply("error", s, [OrderStatus_onError(OrderCur, s)
                               EXCEPT !.sock[s].readyState = "CLOSING",
                                      !.sock[s].errPending = FALSE])

\* MaxTimers bounds the timers the handler may arm
OrderSocketClose(s) ==
  /\ \/ order.sock[s].readyState = "OPEN"
     \/ order.sock[s].readyState = "CLOSING" /\ ~order.sock[s].errPending
  /\ order.reconnectAttempts < maxReconnectAttempts => order.timers < MaxTimers
  /\ OrderApply("close", s, OrderStatus_onClose([OrderCur EXCEPT !.sock[s] = ClosedSocket,
                                                                  !.auth[s] = 0]))

----------------------------------------------------------------------------
(* Specification SpecOrder: the order-status client *)

OrderFrame(userId, statusCode, orderStatus, orderid) ==
  [type |-> "json",
   message |-> [userId |-> userId, statusCode |-> statusCode,
                orderStatus |-> orderStatus, orderid |-> orderid]]

\* text frames that carry no JSON object, and binary frames
OrderOtherData ==
  {[type |-> ty, message |-> OrderFrame("", "", "", "").message] :
     ty \in {"pong", "text", "binary"}}

OrderFrames ==
  { OrderFrame("U1", "200", "AB00", ""),
    OrderFrame("U1", "200", "AB01", "o1"),
    OrderFrame("U1", "200", "AB05", ""),
    OrderFrame("U1", "401", "", ""),
    OrderFrame("U1", "403", "AB00", ""),
    OrderFrame("U1", "429", "", ""),
    OrderFrame("U1", "500", "AB01", "o1") }

NextOrder ==
  \/ OrderCallConnect
  \/ OrderCallDisconnect
  \/ OrderReconnectTimer
  \/ \E s \in SocketIds : OrderSocketOpen(s)
  \/ \E s \in SocketIds : \E data \in OrderFrames \cup OrderOtherData :
       OrderSocketMessage(s, data)
  \/ \E s \in SocketIds : OrderSocketError(s)
  \/ \E s \in SocketIds : OrderSocketClose(s)

SpecOrder == Init /\ [][NextOrder]_vars

----------------------------------------------------------------------------
(* Specification SpecSegment: DEPTH_20 and other subscriptions on NSE_CM    *)
(* and BSE_CM symbols, one at a time and in batches, over connections that  *)
(* open, close and reconnect.                                               *)

SegmentSubscribeCalls ==
  { Sub("d", NSE_CM, 1, DEPTH_20), Sub("e", BSE_CM, 1, DEPTH_20), Sub("b", BSE_CM, 1, LTP) }

SegmentMultiCalls ==
  { <<"z", <<Sym(NSE_CM, 1), Sym(BSE_CM, 1)>>, DEPTH_20>>,
    <<"n", <<Sym(NSE_CM, 1), Sym(NSE_CM, 2)>>, DEPTH_20>> }

NextSegment ==
  \/ CallDisconnect
  \/ \E sub \in SegmentSubscribeCalls : CallSubscribe(sub, MaxPending)
  \/ \E c \in SegmentMultiCalls : CallSubscribeMultiple(c[1], c[2], c[3], MaxPending)
  \/ ReconnectTimer
  \/ \E s \in SocketIds : SocketOpen(s)
  \/ \E s \in SocketIds : SocketClose(s)

SpecSegment == Init /\ [][NextSegment]_vars

----------------------------------------------------------------------------
(* Specification SpecToken: the order-status client with a token that the   *)
(* caller replaces at any time.                                             *)

JwtTokens == {1, 2}

NextToken ==
  \/ OrderCallConnect
  \/ OrderCallDisconnect
  \/ \E jwtToken \in JwtTokens : OrderCallSetJwtToken(jwtToken)
  \/ OrderReconnectTimer
  \/ \E s \in SocketIds : OrderSocketOpen(s)
  \/ \E s \in SocketIds : OrderSocketError(s)
  \/ \E s \in SocketIds : OrderSocketClose(s)

SpecToken == Init /\ [][NextToken]_vars

----------------------------------------------------------------------------
(* Specification SpecCounter: the two clients side by side.  The objects    *)
(* share no field, socket or timer, so a behaviour of the pair is a         *)
(* behaviour of each; SpecCounter follows one object of the pair from its   *)
(* construction: the market-data client through connections that fail,      *)
(* close and reconnect, or the order-status client through NextOrder.       *)

\* the market-data client is the one that was constructed
Market == orderLast.op = "init"

\* the order-status client is the one that was constructed
Orders == last.op = "init"

NextCounter ==
  \/ Market /\ CallConnect
  \/ Market /\ CallConnectThrows
  \/ Market /\ CallDisconnect
  \/ Market /\ \E sub \in ConnectSubscribeCalls : CallSubscribe(sub, MaxPending)
  \/ Market /\ ReconnectTimer
  \/ Market /\ ReconnectTimerThrows
  \/ Market /\ \E s \in SocketIds : SocketOpen(s)
  \/ Market /\ \E s \in SocketIds : SocketError(s)
  \/ Market /\ \E s \in SocketIds : SocketClose(s)
  \/ Orders /\ OrderCallConnect
  \/ Orders /\ OrderCallDisconnect
  \/ Orders /\ OrderReconnectTimer
  \/ Orders /\ \E s \in SocketIds : OrderSocketOpen(s)
  \/ Orders /\ \E s \in SocketIds : \E data \in OrderFrames \cup OrderOtherData :
                 OrderSocketMessage(s, data)
  \/ Orders /\ \E s \in SocketIds : OrderSocketError(s)
  \/ Orders /\ \E s \in SocketIds : OrderSocketClose(s)

SpecCounter == Init /\ [][NextCounter]_vars

----------------------------------------------------------------------------
(* Properties *)

\* the fields of the client, its sockets and its timers
ClientUnchanged ==
  UNCHANGED <<connectionState, ws, subscriptions, reconnectAttempts, heartbeatInterval,
              pendingSubscriptions, sock, timers>>

\* the handler sent nothing, emitted nothing, created and closed no socket
Silent(l) == l.frames = <<>> /\ l.events = <<>> /\ l.created = 0 /\ l.closed = 0

\* frame f carries the token under the exchange type
Carries(f, exchangeType, token) ==
  \E g \in 1..Len(f.tokenList) :
    /\ f.tokenList[g].exchangeType = exchangeType
    /\ \E k \in 1..Len(f.tokenList[g].tokens) : f.tokenList[g].tokens[k] = token

\* the subscribe frames of mode sub.feedMode sent on socket s that carry sub's key
SubscribeFrames(frames, s, sub) ==
  SelectSeq(frames, LAMBDA f : /\ f.sock = s
                               /\ f.action = SUBSCRIBE
                               /\ f.mode = sub.feedMode
                               /\ Carries(f, sub.exchangeType, sub.token))

\* C1: connect() while CONNECTED resolves at once and has no side effect: no
\* socket is created, nothing is sent or emitted, and the connection state,
\* the Registry, the pending queue, the heartbeat timer and the reconnect
\* counter are unchanged (so any number of repeated calls changes nothing).
C1_ConnectWhileConnected ==
  [][(CallConnect /\ connectionState = CONNECTED) =>
       (last'.result = "resolved" /\ Silent(last') /\ ClientUnchanged)]_vars

C1_Witness ==
  /\ last.op = "connect" /\ last.result = "resolved"
  /\ connectionState = CONNECTED /\ heartbeatInterval
  /\ subscriptions # <<>>

\* C2: disconnect() while DISCONNECTED closes no transport, emits nothing and
\* changes nothing; a disconnect() that closed the transport leaves the client
\* DISCONNECTED, and a disconnect() that directly follows a disconnect()
\* closes nothing (two calls in a row close at most once, the second never).
C2_DisconnectWhileDisconnected ==
  [][CallDisconnect =>
       /\ connectionState = DISCONNECTED => (Silent(last') /\ ClientUnchanged)
       /\ last'.closed <= 1
       /\ last'.closed = 1 => connectionState' = DISCONNECTED
       /\ last.op = "disconnect" => last'.closed = 0]_vars

C2_Witness ==
  /\ last.op = "disconnect" /\ Silent(last)
  /\ connectionState = DISCONNECTED /\ ws = 0
  /\ \E s \in SocketIds : sock[s].local

\* C3: when the socket opened by a subscribe()-triggered connect() opens with
\* entries queued by subscribe() calls, exactly one subscribe frame is sent per distinct feed mode
\* of the queue, the frame of a mode carries every queued key of that mode
\* under its exchange type (one group per exchange type), every queued key is
\* in the Registry and the queue is empty.
C3_FlushOnOpen ==
  [][\A s \in SocketIds :
       (/\ SocketOpen(s) /\ ws = s /\ sock[s].origin = "caller"
        /\ pendingSubscriptions # <<>>
        /\ \A i \in 1..Len(pendingSubscriptions) :
             Len(pendingSubscriptions[i].correlationId) = 1) =>
         /\ Len(last'.frames) =
              Cardinality({pendingSubscriptions[i].feedMode :
                             i \in 1..Len(pendingSubscriptions)})
         /\ \A i \in 1..Len(pendingSubscriptions) :
              /\ Len(SubscribeFrames(last'.frames, s, pendingSubscriptions[i])) = 1
              /\ MapHas(subscriptions', KeyOf(pendingSubscriptions[i]))
         /\ \A j \in 1..Len(last'.frames) :
              \A g, h \in 1..Len(last'.frames[j].tokenList) :
                g # h => last'.frames[j].tokenList[g].exchangeType
                           # last'.frames[j].tokenList[h].exchangeType
         /\ pendingSubscriptions' = <<>>]_vars

\* C4: a subscription accepted while not CONNECTED is sent exactly once on the
\* socket that next opens: the open step sends exactly one subscribe frame of
\* its mode carrying its key on that socket.
C4_NeverLostNeverDoubleSent ==
  [][\A s \in SocketIds :
       SocketOpen(s) =>
         \A i \in 1..Len(pendingSubscriptions) :
           Len(SubscribeFrames(last'.frames, s, pendingSubscriptions[i])) = 1]_vars

\* C5: subscribe() for DEPTH_20 on an exchange type other than NSE_CM is
\* rejected in every connection state, sends no frame, creates no socket and
\* leaves the Registry and the pending queue unchanged; for NSE_CM the call
\* succeeds (queued or sent).
C5_Depth20OnlyNseCm ==
  [][\A sub \in SubscribeCalls :
       (sub.feedMode = DEPTH_20 /\ CallSubscribe(sub, MaxPending)) =>
         IF sub.exchangeType # NSE_CM
         THEN last'.result = "rejected" /\ Silent(last') /\ ClientUnchanged
         ELSE last'.result \in {"queued", "sent"}]_vars

C5_Witness ==
  /\ last.op = "subscribe" /\ last.result = "rejected"
  /\ last.arg.feedMode = DEPTH_20 /\ last.arg.exchangeType = BSE_CM
  /\ connectionState = CONNECTED /\ ws # 0 /\ sock[ws].readyState = "OPEN"

\* C6: subscribeMultiple() for DEPTH_20 with a symbol that is not NSE_CM, or
\* with more than 50 symbols, is rejected, sends no frame and changes neither
\* the Registry nor the pending queue (no part of the batch is recorded).
C6_MultipleDepth20FailsFast ==
  [][\A c \in DepthMultiCalls :
       (/\ c[3] = DEPTH_20
        /\ \/ Len(c[2]) > Depth20Limit
           \/ \E i \in 1..Len(c[2]) : c[2][i].exchangeType # NSE_CM
        /\ CallSubscribeMultiple(c[1], c[2], c[3], MaxPendingDepth)) =>
         (last'.result = "rejected" /\ Silent(last') /\ ClientUnchanged)]_vars

C6_Witness ==
  /\ last.op = "subscribeMultiple" /\ last.result = "rejected"
  /\ Len(last.arg[2]) > Depth20Limit
  /\ \A i \in 1..Len(last.arg[2]) : last.arg[2][i].exchangeType = NSE_CM
  /\ connectionState = CONNECTED /\ ws # 0 /\ sock[ws].readyState = "OPEN"

\* C7: the Registry never holds more than 50 entries of mode DEPTH_20.
C7_Depth20CapCumulative ==
  Len(SelectSeq(subscriptions, LAMBDA e : e.feedMode = DEPTH_20)) <= Depth20Limit

\* C8: when the socket created by the reconnect timer opens (no caller
\* connect(), subscribe() or disconnect() in between: it is still this.ws and
\* nothing is queued), every Registry entry is sent in exactly one subscribe
\* frame of its feed mode on that socket, and the Registry is unchanged.
C8_ReconnectReplay ==
  [][\A s \in SocketIds :
       (SocketOpen(s) /\ sock[s].origin = "timer" /\ ws = s /\ pendingSubscriptions = <<>>) =>
         /\ subscriptions' = subscriptions
         /\ \A i \in 1..Len(subscriptions) :
              Len(SubscribeFrames(last'.frames, s, subscriptions[i])) = 1
         /\ \A j \in 1..Len(last'.frames) :
              last'.frames[j].sock = s /\ last'.frames[j].action = SUBSCRIBE]_vars

C8_Witness ==
  /\ last.op = "open" /\ ws = last.arg /\ sock[last.arg].origin = "timer"
  /\ Len(subscriptions) >= 2
  /\ Len(last.frames) >= 2
  /\ \A j \in 1..Len(last.frames) : last.frames[j].correlationID[1] # "pending"
  /\ \A i \in 1..Len(subscriptions) :
       Len(SubscribeFrames(last.frames, last.arg, subscriptions[i])) = 1

\* C9: the reconnect counter never passes 5, and once `reconnect_failed` has
\* been emitted it is not emitted again before a successful open.
C9_ReconnectFailedOnce ==
  [][/\ reconnectAttempts' <= maxReconnectAttempts
     /\ exhausted => Count(last'.events, "reconnect_failed") = 0]_vars

\* C10: after an explicit disconnect() no reconnect is under way: while the
\* client holds no socket (from the disconnect() that closed it until the
\* next connect()), and right after any disconnect() call, no reconnect timer
\* is pending and the latest handler emitted no `reconnecting`.
C10_NoReconnectAfterDisconnect ==
  (ws = 0 \/ last.op = "disconnect") => (timers = 0 /\ ~Emitted("reconnecting"))

\* C11: a disconnect() called in a state other than DISCONNECTED leaves the
\* heartbeat timer stopped, the pending queue and the Registry empty, the
\* socket handle (if any) closed and dropped, the connection state
\* DISCONNECTED, and has emitted `disconnect`.
C11_DisconnectTearsDown ==
  [][(CallDisconnect /\ connectionState # DISCONNECTED) =>
       /\ ~heartbeatInterval'
       /\ pendingSubscriptions' = <<>>
       /\ subscriptions' = <<>>
       /\ ws' = 0
       /\ ws # 0 => last'.closed = 1
       /\ connectionState' = DISCONNECTED
       /\ Count(last'.events, "disconnect") = 1]_vars

\* C12: while CONNECTED, unsubscribe() of a key that is not in the Registry
\* resolves, sends exactly one frame, an unsubscribe frame (action 0) that
\* carries that key and nothing else, and leaves the Registry unchanged.
C12_UnsubscribeUnknownKey ==
  [][\A c \in UnsubscribeCalls :
       (/\ CallUnsubscribe(c[1], c[2], c[3])
        /\ connectionState = CONNECTED
        /\ ~MapHas(subscriptions, getSubscriptionKey(c[2], c[3]))) =>
         /\ last'.result = "sent"
         /\ subscriptions' = subscriptions
         /\ Len(last'.frames) = 1
         /\ last'.frames[1].action = UNSUBSCRIBE
         /\ last'.frames[1].tokenList = <<[exchangeType |-> c[2], tokens |-> <<c[3]>>]>>]_vars

\* C13: at most one socket created by the client is live (connecting or open).
C13_SingleSocket ==
  Cardinality({s \in SocketIds : sock[s].readyState \in {"CONNECTING", "OPEN"}}) <= 1

\* C14: the heartbeat timer is armed exactly when the connection state is
\* CONNECTED.
C14_HeartbeatIffConnected ==
  heartbeatInterval <=> (connectionState = CONNECTED)

\* the events of a handler on the channels that carry order events
OrderChannelEvents(events) ==
  SelectSeq(events, LAMBDA e : e[1] \in {"message", "order-update", "order-"})

\* C15: a frame with status code 401, 403 or 429 is emitted as `error` and
\* disconnects the client locally (a connected client closes its socket and
\* is DISCONNECTED); from then until the caller calls connect(), no handler
\* emits `reconnecting` and no handler creates a socket.
C15_NoRetryAfterAuthReject ==
  [][/\ \A s \in SocketIds : \A data \in OrderFrames :
          (OrderSocketMessage(s, data) /\ data.message.statusCode \in {"401", "403", "429"}) =>
            /\ Count(orderLast'.events, <<"error">>) = 1
            /\ (order.connectionState = CONNECTED /\ order.ws # 0) =>
                 (orderLast'.closed = 1 /\ order'.connectionState = DISCONNECTED)
     /\ authRejected =>
          /\ Count(orderLast'.events, <<"reconnecting">>) = 0
          /\ orderLast'.created > 0 => orderLast'.op = "connect"]_vars

\* C16: a frame with status code "200" and an order status other than the
\* acknowledgment is emitted once on `message`, once on `order-update`, once
\* on `order-<status>`, and on `order-<orderid>` exactly when it carries an
\* order id; a frame with another status code is emitted on none of them.
C16_OrderFanOut ==
  [][\A s \in SocketIds : \A data \in OrderFrames :
       OrderSocketMessage(s, data) =>
         LET message == data.message
             events == orderLast'.events
         IN /\ (message.statusCode = "200"
                /\ message.orderStatus \notin {"", OrderStatusCode_CONNECTED}) =>
                  /\ Count(events, <<"message">>) = 1
                  /\ Count(events, <<"order-update">>) = 1
                  /\ Count(events, <<"order-", message.orderStatus>>) = 1
                  /\ message.orderid # "" => Count(events, <<"order-", message.orderid>>) = 1
                  /\ Len(OrderChannelEvents(events))
                       = IF message.orderid # "" THEN 4 ELSE 3
            /\ message.statusCode # "200" => OrderChannelEvents(events) = <<>>]_vars

C16_Witness ==
  /\ orderLast.op = "message" /\ orderLast.arg.type = "json"
  /\ orderLast.arg.message.statusCode = "200"
  /\ orderLast.arg.message.orderid # ""
  /\ Count(orderLast.events, <<"order-", orderLast.arg.message.orderid>>) = 1

\* C17 as claimed: the acknowledgment frame (order status AB00, status code
\* "200") sets the cached client code to the frame's user id and is emitted
\* on no channel: not on `message`, not on `order-update`, not on `order-<...>`.
C17_AckNotForwarded ==
  [][\A s \in SocketIds : \A data \in OrderFrames :
       (/\ OrderSocketMessage(s, data)
        /\ data.message.statusCode = "200"
        /\ data.message.orderStatus = OrderStatusCode_CONNECTED) =>
         /\ order'.clientCode = data.message.userId
         /\ OrderChannelEvents(orderLast'.events) = <<>>]_vars

\* C17 amended: the acknowledgment frame sets the cached client code to the
\* frame's user id and is emitted once on `message` and on nothing else: not
\* on `order-update` and not on any `order-<...>` channel.
C17_AckOnMessageOnly ==
  [][\A s \in SocketIds : \A data \in OrderFrames :
       (/\ OrderSocketMessage(s, data)
        /\ data.message.statusCode = "200"
        /\ data.message.orderStatus = OrderStatusCode_CONNECTED) =>
         /\ order'.clientCode = data.message.userId
         /\ orderLast'.events = << <<"message">> >>]_vars

C17_Witness ==
  /\ orderLast.op = "message" /\ orderLast.arg.type = "json"
  /\ orderLast.arg.message.statusCode = "200"
  /\ orderLast.arg.message.orderStatus = OrderStatusCode_CONNECTED
  /\ order.clientCode = "U1"
  /\ order.connectionState = CONNECTED

\* the entries of the tick log on one channel
OnChannel(ticks, channel) == {i \in 1..Len(ticks) : ticks[i].channel = channel}

\* C18: every binary frame that decodes is emitted exactly once on `tick`, and
\* exactly once on `tick:<correlationId>` of the Registry entry with the
\* frame's (exchangeType, token) when there is one; otherwise on `tick` only.
C18_TickDispatch ==
  (last.op = "message" /\ last.arg.type = "binary" /\ ~DecodeThrows(last.arg)) =>
    LET key == getSubscriptionKey(last.arg.head[2], TokenOf(last.arg))
        owners == {i \in 1..Len(subscriptions) : KeyOf(subscriptions[i]) = key}
    IN /\ Cardinality(OnChannel(last.ticks, <<"tick">>)) = 1
       /\ \A i \in 1..Len(last.ticks) : last.ticks[i].tick = decode(last.arg)
       /\ \A i \in owners :
            Cardinality(OnChannel(last.ticks, <<"tick:", subscriptions[i].correlationId>>)) = 1
       /\ Len(last.ticks) = 1 + Cardinality(owners)

C18_Witness ==
  /\ last.op = "message" /\ last.arg.type = "binary"
  /\ Len(last.ticks) = 2
  /\ last.ticks[1].channel = <<"tick">>
  /\ last.ticks[2].channel = <<"tick:", <<"a">>>>
  /\ \E i \in 1..Len(subscriptions) : subscriptions[i].correlationId = <<"a">>

\* the scale factor of an exchange type
ScaleFactor(exchangeType) == IF exchangeType = CDE_FO THEN 10000000 ELSE 100

\* the tick of the last frame, as emitted on `tick`
LastTick == last.ticks[1].tick

\* a frame has been decoded into a tick
Decoded == last.op = "message" /\ last.arg.type = "binary" /\ Len(last.ticks) > 0

\* C19: a decoded last traded price is the raw value divided by 10,000,000 on
\* CDE_FO and by 100 on every other exchange type: raw 10,000,000 on CDE_FO and
\* raw 100 elsewhere decode to 1.00, raw 45000 on NSE_CM decodes to 450.00.
C19_ScaleFactor ==
  (Decoded /\ "lastTradedPrice" \in DOMAIN LastTick) =>
    LET raw == last.arg.at[43]
        exchangeType == last.arg.head[2]
        price == LastTick["lastTradedPrice"]
    IN /\ price = Divide(Number(raw), ScaleFactor(exchangeType))
       /\ (exchangeType = CDE_FO /\ raw = 10000000) => price = Number(1)
       /\ (exchangeType # CDE_FO /\ raw = 100) => price = Number(1)
       /\ (exchangeType = NSE_CM /\ raw = 45000) => price = Number(450)

C19_Witness ==
  /\ Decoded
  /\ last.arg.head[2] = CDE_FO
  /\ last.arg.at[43] = 10000000
  /\ LastTick["lastTradedPrice"] = Number(1)

\* the absolute-price fields of a tick and the offsets of their raw values
PriceFields ==
  [lastTradedPrice |-> 43, averageTradedPrice |-> 59, openPrice |-> 91,
   highPrice |-> 99, lowPrice |-> 107, closePrice |-> 115,
   upperCircuitLimit |-> 347, lowerCircuitLimit |-> 355,
   fiftyTwoWeekHighPrice |-> 363, fiftyTwoWeekLowPrice |-> 371]

\* the quantities and percentages of a tick and the offsets of their raw values
QuantityFields ==
  [lastTradedQuantity |-> 51, volumeTradedForTheDay |-> 67, totalBuyQuantity |-> 75,
   totalSellQuantity |-> 83, openInterest |-> 131, openInterestChangePercent |-> 139]

Scaled(raw, exchangeType) == Divide(Number(raw), ScaleFactor(exchangeType))

\* the raw values of entry k of one side of the book of a frame
RawEntry(data, side, k) ==
  IF data.head[1] = SNAP_QUOTE
    THEN LET wanted == IF side = "bestBids" THEN 1 ELSE 0
             packets == SelectSeq([i \in 1..10 |-> 147 + ((i - 1) * 20)],
                                  LAMBDA o : (IF data.at[o] = 1 THEN 1 ELSE 0) = wanted)
         IN [quantity |-> data.at[packets[k] + 2], price |-> data.at[packets[k] + 10],
             numOrders |-> data.at[packets[k] + 18]]
    ELSE LET o == (IF side = "bestBids" THEN 43 ELSE 243) + ((k - 1) * 10)
         IN [quantity |-> data.at[o], price |-> data.at[o + 4],
             numOrders |-> data.at[o + 8]]

\* C20: every absolute-price field of a decoded tick (last traded price,
\* average traded price, open, high, low, close, circuit limits, 52-week high
\* and low, the price of every best bid and ask of SNAP_QUOTE and DEPTH_20)
\* is the raw value divided by the scale factor; quantities, order counts and
\* percentages are the raw values.
C20_PriceScalingComplete ==
  Decoded =>
    LET data == last.arg
        exchangeType == data.head[2]
    IN /\ \A f \in DOMAIN PriceFields \cap DOMAIN LastTick :
            LastTick[f] = Scaled(data.at[PriceFields[f]], exchangeType)
       /\ \A f \in DOMAIN QuantityFields \cap DOMAIN LastTick :
            LastTick[f] = Number(data.at[QuantityFields[f]])
       /\ \A side \in {"bestBids", "bestAsks"} \cap DOMAIN LastTick :
            \A k \in 1..Len(LastTick[side]) :
              LET raw == RawEntry(data, side, k)
              IN LastTick[side][k] = [quantity |-> Number(raw.quantity),
                                      price |-> Scaled(raw.price, exchangeType),
                                      numOrders |-> Number(raw.numOrders)]

\* C21: an error of the transport on a socket that has not opened moves the
\* client to ERROR, emits `error` once and rejects the promise of that
\* connect() call; a connect() whose socket constructor throws does the same
\* and creates no socket; no connect() call throws.
C21_ConnectFailure ==
  [][/\ \A s \in SocketIds :
          (SocketError(s) /\ sock[s].readyState # "OPEN") =>
            /\ connectionState' = ERROR
            /\ last'.events = <<"error">>
            /\ last'.result = "rejected"
     /\ (CallConnectThrows /\ connectionState # CONNECTED) =>
            /\ connectionState' = ERROR
            /\ last'.events = <<"error">>
            /\ last'.result = "rejected"
            /\ last'.created = 0
     /\ (CallConnect \/ CallConnectThrows) =>
            last'.result \in {"resolved", "pending", "rejected"}]_vars

C21_Witness ==
  /\ last.op = "connect" /\ last.arg = 1
  /\ last.result = "rejected"
  /\ connectionState = ERROR
  /\ last.events = <<"error">>

\* the keys of the Registry
RegistryKeys(map) == {KeyOf(map[i]) : i \in 1..Len(map)}

\* C22: a key leaves the Registry only in unsubscribe(), unsubscribeMultiple()
\* or disconnect(); a close, an error, the reconnect callback and an open
\* that has nothing to flush (the replay included) leave the Registry as it is,
\* also when the close reaches the reconnect cap.
C22_RegistryFrame ==
  [][/\ ~(RegistryKeys(subscriptions) \subseteq RegistryKeys(subscriptions')) =>
          last'.op \in {"unsubscribe", "unsubscribeMultiple", "disconnect"}
     /\ \A s \in SocketIds :
          (SocketClose(s) \/ SocketError(s)) => subscriptions' = subscriptions
     /\ ReconnectTimer => subscriptions' = subscriptions
     /\ \A s \in SocketIds :
          (SocketOpen(s) /\ pendingSubscriptions = <<>>) =>
            subscriptions' = subscriptions]_vars

C22_Witness ==
  /\ last.op = "close"
  /\ Emitted("reconnect_failed")
  /\ reconnectAttempts = maxReconnectAttempts
  /\ Len(subscriptions) = 2

\* C24: unsubscribe() and unsubscribeMultiple() called in a state other than
\* CONNECTED are rejected, send no frame, create and close no socket, and
\* leave the Registry, the pending queue and every other field unchanged.
C24_UnsubscribeNotConnected ==
  [][connectionState # CONNECTED =>
       /\ \A c \in UnsubscribeCalls :
            CallUnsubscribe(c[1], c[2], c[3]) =>
              (last'.result = "rejected" /\ Silent(last') /\ ClientUnchanged)
       /\ \A c \in UnsubMultiCalls :
            CallUnsubscribeMultiple(c[1], c[2]) =>
              (last'.result = "rejected" /\ Silent(last') /\ ClientUnchanged)]_vars

C24_Witness ==
  /\ last.op = "unsubscribeMultiple" /\ last.result = "rejected"
  /\ connectionState = CONNECTING
  /\ \E i \in 1..Len(pendingSubscriptions) :
       KeyOf(pendingSubscriptions[i]) = getSubscriptionKey(NSE_CM, 1)
  /\ subscriptions # <<>>

\* C23: a text frame is never dispatched as a tick: a JSON text with an error
\* code or an error message is emitted on `error` and on nothing else, and the
\* text "pong" emits nothing and changes nothing.
C23_TextFramesNotTicks ==
  [][\A s \in SocketIds : \A data \in TextMessages :
       SocketMessage(s, data) =>
         /\ last'.ticks = <<>>
         /\ (data.text = "json" /\ (data.errorCode \/ data.errorMessage)) =>
              last'.events = <<"error">>
         /\ data.text = "pong" =>
              (Silent(last') /\ last'.events = <<>> /\ ClientUnchanged)]_vars

C23_Witness ==
  /\ last.op = "message" /\ last.arg.type = "string"
  /\ last.arg.text = "json" /\ last.arg.errorCode
  /\ last.events = <<"error">>
  /\ last.ticks = <<>>

\* the number of tokens frame f carries
TokensIn(f) ==
  LET sizes == [g \in 1..Len(f.tokenList) |-> Len(f.tokenList[g].tokens)]
      sum[k \in 0..Len(sizes)] == IF k = 0 THEN 0 ELSE sum[k - 1] + sizes[k]
  IN sum[Len(sizes)]

\* the keys the frames fs carry
CarriedKeys(fs) ==
  UNION { UNION { { getSubscriptionKey(fs[j].tokenList[g].exchangeType,
                                       fs[j].tokenList[g].tokens[k]) :
                      k \in 1..Len(fs[j].tokenList[g].tokens) } :
                  g \in 1..Len(fs[j].tokenList) } :
          j \in 1..Len(fs) }

\* the number of tokens the frames fs carry
TokensInAll(fs) ==
  LET total[k \in 0..Len(fs)] == IF k = 0 THEN 0 ELSE total[k - 1] + TokensIn(fs[k])
  IN total[Len(fs)]

\* C25: the frames of the replay on the reopened socket are subscribe frames;
\* a DEPTH_20 frame carries at most 50 tokens and a frame of another mode at
\* most 200 over its exchange groups; per feed mode, the frames carry every
\* Registry key of the mode under its exchange type, and each key once (as
\* many tokens as the Registry has keys of the mode, so none is repeated).
C25_ReplayBatching ==
  [][\A s \in SocketIds :
       (SocketOpen(s) /\ sock[s].origin = "timer" /\ ws = s) =>
         LET frames == last'.frames
             modes == {subscriptions[i].feedMode : i \in 1..Len(subscriptions)}
         IN /\ \A j \in 1..Len(frames) :
                 /\ frames[j].action = SUBSCRIBE /\ frames[j].sock = s
                 /\ frames[j].mode \in modes
                 /\ TokensIn(frames[j]) <=
                      (IF frames[j].mode = DEPTH_20 THEN Depth20Limit ELSE batchSize)
            /\ \A mode \in modes :
                 LET fs == SelectSeq(frames, LAMBDA f : f.mode = mode)
                     mine == SelectSeq(subscriptions, LAMBDA e : e.feedMode = mode)
                 IN /\ CarriedKeys(fs) = RegistryKeys(mine)
                    /\ TokensInAll(fs) = Len(mine)]_vars

C25_Witness ==
  /\ last.op = "open" /\ ws = last.arg /\ sock[last.arg].origin = "timer"
  /\ Len(subscriptions) > (2 * batchSize) + Depth20Limit
  /\ \E j \in 1..Len(last.frames) :
       last.frames[j].mode = LTP /\ Len(last.frames[j].tokenList) = 2
         /\ TokensIn(last.frames[j]) = batchSize
  /\ Cardinality({j \in 1..Len(last.frames) : last.frames[j].mode = DEPTH_20}) = 3

\* C26: at most one reconnect timer is pending, and none is pending right
\* after a call that started a connection (connect(), a subscribe() that
\* connects) or after disconnect(): the pending timer was cleared first.
C26_TimerOwnership ==
  /\ timers <= 1
  /\ (last.op \in {"connect", "subscribe"} /\ last.created > 0) => timers = 0
  /\ last.op = "disconnect" => timers = 0

\* C27: an open emits `connected` once and resolves the connect promise; the
\* listeners of `connected` see the state CONNECTED, the heartbeat armed, the
\* pending queue empty and every entry that was queued in the Registry, and
\* that is also the state the step ends in.
C27_OpenOrdering ==
  [][\A s \in SocketIds :
       SocketOpen(s) =>
         /\ Count(last'.events, "connected") = 1
         /\ last'.result = "resolved"
         /\ \A i \in 1..Len(last'.events) :
              last'.events[i] = "connected" =>
                /\ last'.seen[i].connectionState = CONNECTED
                /\ last'.seen[i].heartbeatInterval
                /\ last'.seen[i].pendingSubscriptions = <<>>
                /\ \A k \in 1..Len(pendingSubscriptions) :
                     MapHas(last'.seen[i].subscriptions, KeyOf(pendingSubscriptions[k]))
                /\ last'.seen[i] = Snapshot([connectionState |-> connectionState',
                                             heartbeatInterval |-> heartbeatInterval',
                                             pendingSubscriptions |-> pendingSubscriptions',
                                             subscriptions |-> subscriptions'])]_vars

C27_Witness ==
  /\ last.op = "open"
  /\ Len(last.frames) = 2
  /\ Count(last.events, "connected") = 1
  /\ Len(subscriptions) = 2
  /\ last.seen[Len(last.seen)].subscriptions = subscriptions

\* C28: a subscribe() that passes validation while CONNECTED records its
\* entry in the Registry under its key, sends exactly one frame, a subscribe
\* frame (action 1) of its mode with its single token on the current socket,
\* and resolves with 'request sent'.
C28_SubscribeWhileConnected ==
  [][\A sub \in SubscribeCalls :
       (/\ CallSubscribe(sub, MaxPending)
        /\ connectionState = CONNECTED
        /\ ~(sub.feedMode = DEPTH_20 /\ sub.exchangeType # NSE_CM)) =>
         /\ last'.result = "sent"
         /\ MapHas(subscriptions', KeyOf(sub))
         /\ \A i \in 1..Len(subscriptions') :
              KeyOf(subscriptions'[i]) = KeyOf(sub) => subscriptions'[i] = sub
         /\ Len(last'.frames) = 1
         /\ last'.frames[1].sock = ws
         /\ last'.frames[1].action = SUBSCRIBE
         /\ last'.frames[1].mode = sub.feedMode
         /\ last'.frames[1].tokenList =
              <<[exchangeType |-> sub.exchangeType, tokens |-> <<sub.token>>]>>]_vars

\* what a call that only queues does: nothing is sent or closed, the Registry
\* is untouched, and a socket is created (state CONNECTING) exactly when the
\* state was DISCONNECTED; otherwise nothing but the queue changes
QueuedOnly ==
  /\ last'.result = "queued"
  /\ last'.frames = <<>> /\ last'.closed = 0
  /\ subscriptions' = subscriptions
  /\ last'.created = (IF connectionState = DISCONNECTED THEN 1 ELSE 0)
  /\ connectionState' =
       (IF connectionState = DISCONNECTED THEN CONNECTING ELSE connectionState)
  /\ connectionState # DISCONNECTED =>
       UNCHANGED <<ws, sock, reconnectAttempts, heartbeatInterval, timers>>

\* C29: a subscribe() or subscribeMultiple() that passes validation while not
\* CONNECTED appends its entries to the pending queue, resolves with 'queued',
\* and starts a connection exactly when the state is DISCONNECTED; in
\* CONNECTING, DISCONNECTING and ERROR it only enqueues and creates no socket.
C29_QueueWhileNotConnected ==
  [][connectionState # CONNECTED =>
       /\ \A sub \in QueueSubscribeCalls :
            (/\ CallSubscribe(sub, MaxPending)
             /\ ~(sub.feedMode = DEPTH_20 /\ sub.exchangeType # NSE_CM)) =>
              /\ pendingSubscriptions' = Append(pendingSubscriptions, sub)
              /\ QueuedOnly
       /\ \A c \in QueueMultiCalls :
            (/\ CallSubscribeMultiple(c[1], c[2], c[3], MaxPending)
             /\ ~(c[3] = DEPTH_20 /\ Len(c[2]) > Depth20Limit)
             /\ ~(c[3] = DEPTH_20 /\ \E i \in 1..Len(c[2]) : c[2][i].exchangeType # NSE_CM)) =>
              /\ pendingSubscriptions' =
                   pendingSubscriptions \o MultiSubs(c[1], c[2], c[3])
              /\ QueuedOnly]_vars

C29_Witness ==
  /\ last.op = "subscribeMultiple" /\ last.result = "queued"
  /\ connectionState = ERROR
  /\ last.created = 0
  /\ Len(pendingSubscriptions) = 2

\* C30: the Registry holds at most one entry per key; a subscribe() sent while
\* CONNECTED leaves its own entry under its key, and a flush leaves under
\* every queued key the entry of the last call queued for that key (the queue
\* is in call order), whatever the feed modes of the other queued entries.
C30_ResubscribeOverwrites ==
  [][/\ \A i, j \in 1..Len(subscriptions') :
          i # j => KeyOf(subscriptions'[i]) # KeyOf(subscriptions'[j])
     /\ \A sub \in OverwriteSubscribeCalls :
          (CallSubscribe(sub, MaxPendingOverwrite) /\ connectionState = CONNECTED) =>
            /\ MapHas(subscriptions', KeyOf(sub))
            /\ MapGet(subscriptions', KeyOf(sub)) = sub
     /\ \A s \in SocketIds :
          SocketOpen(s) =>
            \A i \in 1..Len(pendingSubscriptions) :
              (\A j \in (i + 1)..Len(pendingSubscriptions) :
                 KeyOf(pendingSubscriptions[j]) # KeyOf(pendingSubscriptions[i])) =>
                /\ MapHas(subscriptions', KeyOf(pendingSubscriptions[i]))
                /\ MapGet(subscriptions', KeyOf(pendingSubscriptions[i]))
                     = pendingSubscriptions[i]]_vars

\* C31: a frame whose status code is none of "200", "401", "403", "429" is
\* emitted once on `error` and on no order channel, and it leaves the
\* connection state, the heartbeat, the socket handle and every socket as
\* they were (nothing is closed): a CONNECTED client stays CONNECTED.
C31_ServerErrorKeepsConnection ==
  [][\A s \in SocketIds : \A data \in OrderFrames :
       (/\ OrderSocketMessage(s, data)
        /\ data.message.statusCode \notin {"200", "401", "403", "429"}) =>
         /\ Count(orderLast'.events, <<"error">>) = 1
         /\ OrderChannelEvents(orderLast'.events) = <<>>
         /\ order'.connectionState = order.connectionState
         /\ order'.pingInterval = order.pingInterval
         /\ order'.heartbeatInterval = order.heartbeatInterval
         /\ order'.ws = order.ws
         /\ order'.sock = order.sock
         /\ orderLast'.closed = 0]_vars

C31_Witness ==
  /\ orderLast.op = "message" /\ orderLast.arg.type = "json"
  /\ orderLast.arg.message.statusCode = "500"
  /\ order.connectionState = CONNECTED
  /\ order.pingInterval
  /\ order.ws # 0 /\ order.sock[order.ws].readyState = "OPEN"
  /\ orderLast.events = << <<"error">> >>

C33_ExhaustionTerminal ==
  [][/\ Count(last'.events, "reconnect_failed") > 0 =>
          /\ connectionState' = DISCONNECTED
          /\ last'.created = 0
          /\ subscriptions' = subscriptions
     /\ (Emitted("reconnect_failed") /\ last'.op \notin {"connect", "subscribe"}) =>
          /\ connectionState' = DISCONNECTED
          /\ last'.created = 0
          /\ subscriptions' = subscriptions]_vars

\* the optional fields of a mode with the length from which each is present
FieldEnds(mode) ==
  LET common == { <<"sequenceNumber", 35>>, <<"exchangeTimestamp", 43>> }
      quote == { <<"lastTradedPrice", 51>>, <<"lastTradedQuantity", 59>>,
                 <<"averageTradedPrice", 67>>, <<"volumeTradedForTheDay", 75>>,
                 <<"totalBuyQuantity", 83>>, <<"totalSellQuantity", 91>>,
                 <<"openPrice", 99>>, <<"highPrice", 107>>, <<"lowPrice", 115>>,
                 <<"closePrice", 123>> }
      snap == { <<"lastTradedTimestamp", 131>>, <<"openInterest", 139>>,
                <<"openInterestChangePercent", 147>>, <<"bestBids", 347>>,
                <<"bestAsks", 347>>, <<"upperCircuitLimit", 355>>,
                <<"lowerCircuitLimit", 363>>, <<"fiftyTwoWeekHighPrice", 371>>,
                <<"fiftyTwoWeekLowPrice", 379>> }
  IN IF mode = LTP THEN common \cup { <<"lastTradedPrice", 51>> }
     ELSE IF mode = QUOTE THEN common \cup quote
     ELSE IF mode = SNAP_QUOTE THEN common \cup quote \cup snap
     ELSE common

\* C34: a binary frame changes nothing in the client; one shorter than the
\* 27-byte header emits nothing (no `tick`, no `error`); one that holds the
\* header is emitted as a tick in which each optional field of its mode is
\* present exactly when the buffer is as long as the field's end offset.
C34_LengthGating ==
  [][(last'.op = "message" /\ last'.arg.type = "binary") =>
       LET data == last'.arg
       IN /\ ClientUnchanged
          /\ data.length < 27 => (last'.ticks = <<>> /\ last'.events = <<>>)
          /\ data.length >= 27 =>
               /\ last'.events = <<>>
               /\ Len(last'.ticks) >= 1
               /\ \A i \in 1..Len(last'.ticks) :
                    \A f \in FieldEnds(data.head[1]) :
                      (f[1] \in DOMAIN last'.ticks[i].tick) <=> (data.length >= f[2])]_vars

\* C35: a DEPTH_20 frame of at least 443 bytes, whatever its exchange-type
\* byte, is emitted as a tick with exactly 20 bids and 20 asks, the k-th bid
\* read from the 10-byte record at offset 43 + 10 (k - 1) and the k-th ask
\* from the record at offset 243 + 10 (k - 1) (quantity and number of orders;
\* the scaling of the price is C20's).
C35_Depth20Decoding ==
  (/\ last.op = "message" /\ last.arg.type = "binary"
   /\ last.arg.length >= 443 /\ last.arg.head[1] = DEPTH_20) =>
    /\ Len(last.ticks) >= 1
    /\ \A i \in 1..Len(last.ticks) :
         LET tick == last.ticks[i].tick
             side(name, base) ==
               /\ name \in DOMAIN tick
               /\ Len(tick[name]) = 20
               /\ \A k \in 1..20 :
                    /\ tick[name][k].quantity
                         = Number(ReadInt(last.arg, base + ((k - 1) * 10)))
                    /\ tick[name][k].numOrders
                         = Number(ReadInt(last.arg, base + ((k - 1) * 10) + 8))
         IN side("bestBids", 43) /\ side("bestAsks", 243)

\* C36: for both clients the reconnect counter stays within 0..5; it grows
\* only by 1, and only in a handler that arms a reconnect timer and emits
\* `reconnecting`; it shrinks only in the open listener, to 0 (not in
\* connect(), not in disconnect()).
C36_CounterDiscipline ==
  [][/\ reconnectAttempts' \in 0..5
     /\ reconnectAttempts' > reconnectAttempts =>
          /\ reconnectAttempts' = reconnectAttempts + 1
          /\ timers' = timers + 1
          /\ Count(last'.events, "reconnecting") = 1
     /\ reconnectAttempts' < reconnectAttempts =>
          /\ last'.op = "open"
          /\ reconnectAttempts' = 0
     /\ last'.op \in {"connect", "disconnect"} => reconnectAttempts' = reconnectAttempts
     /\ order'.reconnectAttempts \in 0..5
     /\ order'.reconnectAttempts > order.reconnectAttempts =>
          /\ order'.reconnectAttempts = order.reconnectAttempts + 1
          /\ orderLast'.armed = 1
          /\ Count(orderLast'.events, <<"reconnecting">>) = 1
     /\ order'.reconnectAttempts < order.reconnectAttempts =>
          /\ orderLast'.op = "open"
          /\ order'.reconnectAttempts = 0
     /\ orderLast'.op \in {"connect", "disconnect"} =>
          order'.reconnectAttempts = order.reconnectAttempts]_vars

\* a caller's connect() after five scheduled attempts leaves the counter at 5
C36_Witness ==
  /\ last.op = "connect" /\ last.created = 1
  /\ reconnectAttempts = 5
  /\ connectionState = CONNECTING

\* C37: an open, error or close event of a socket that is not the client's
\* current socket leaves the connection state and the heartbeat as they
\* were, emits no `disconnect` and arms no reconnect timer, for the
\* market-data client and for the order-status client.
C37_StaleSocketIsolation ==
  [][/\ (last'.op \in {"open", "error", "close"} /\ last' # last /\ last'.arg # ws) =>
          /\ connectionState' = connectionState
          /\ heartbeatInterval' = heartbeatInterval
          /\ Count(last'.events, "disconnect") = 0
          /\ timers' = timers
     /\ (orderLast'.op \in {"open", "error", "close"} /\ orderLast' # orderLast
         /\ orderLast'.arg # order.ws) =>
          /\ order'.connectionState = order.connectionState
          /\ order'.pingInterval = order.pingInterval
          /\ Count(orderLast'.events, <<"disconnect">>) = 0
          /\ orderLast'.armed = 0]_vars

\* the sockets of the order-status client that are connecting or open
OrderLive(o) == {s \in SocketIds : o.sock[s].readyState \in {"CONNECTING", "OPEN"}}

\* C38: setJwtToken(t) called while not CONNECTED replaces the stored token
\* and does nothing else; called while CONNECTED it leaves exactly one live
\* socket, the current one, created with the token t; and the close event of
\* the old socket that follows the call arms no reconnect timer, creates no
\* socket and leaves the connection state as it was.
C38_SetJwtToken ==
  [][/\ \A jwtToken \in JwtTokens :
          OrderCallSetJwtToken(jwtToken) =>
            IF order.connectionState = CONNECTED
            THEN /\ order'.jwtToken = jwtToken
                 /\ OrderLive(order') = {order'.ws}
                 /\ order'.auth[order'.ws] = jwtToken
            ELSE /\ order' = [order EXCEPT !.jwtToken = jwtToken]
                 /\ orderLast'.created = 0 /\ orderLast'.closed = 0
                 /\ orderLast'.events = <<>>
     /\ (orderLast.op = "setJwtToken" /\ orderLast.created = 1 /\ orderLast'.op = "close") =>
          /\ orderLast'.armed = 0
          /\ orderLast'.created = 0
          /\ order'.connectionState = order.connectionState]_vars

\* C39: after every handler, a client that is CONNECTED has an empty pending
\* queue (the open listener empties it in the step that sets CONNECTED), and
\* the queue grows only in a handler that started in another state.
C39_QueueEmptyWhenConnected ==
  [][/\ connectionState' = CONNECTED => pendingSubscriptions' = <<>>
     /\ Len(pendingSubscriptions') > Len(pendingSubscriptions) =>
          /\ connectionState # CONNECTED
          /\ last'.op \in {"subscribe", "subscribeMultiple"}]_vars

\* an open that found entries in the queue and sent them
C39_Witness ==
  /\ last.op = "open"
  /\ connectionState = CONNECTED
  /\ pendingSubscriptions = <<>>
  /\ Len(last.frames) >= 1
  /\ last.frames[1].correlationID[1] = "pending"

\* C40: every entry of the Registry and every entry of the pending queue
\* whose feed mode is DEPTH_20 has exchange type NSE_CM.
C40_Depth20EntriesNseCm ==
  /\ \A i \in 1..Len(subscriptions) :
       subscriptions[i].feedMode = DEPTH_20 => subscriptions[i].exchangeType = NSE_CM
  /\ \A i \in 1..Len(pendingSubscriptions) :
       pendingSubscriptions[i].feedMode = DEPTH_20 =>
         pendingSubscriptions[i].exchangeType = NSE_CM

\* a rejected DEPTH_20 batch with a BSE_CM symbol, with DEPTH_20 entries
\* registered and queued
C40_Witness ==
  /\ last.op = "subscribeMultiple" /\ last.result = "rejected"
  /\ \E i \in 1..Len(subscriptions) : subscriptions[i].feedMode = DEPTH_20
  /\ \E i \in 1..Len(pendingSubscriptions) : pendingSubscriptions[i].feedMode = DEPTH_20
  /\ \E i \in 1..Len(subscriptions) : subscriptions[i].exchangeType = BSE_CM

====
